---- MODULE Spec2Model ----
(***************************************************************************)
(* A model of the langroid-ui backend bridge.                              *)
(*                                                                         *)
(*  - WebSocketCallbacks (backend/core/websocket_callbacks.py): the        *)
(*    streaming hooks, the primary/secondary senders of complete messages  *)
(*    and the per-turn deduplication ledger.  Specification SpecCB.        *)
(*  - CallbackChatSession / CallbackSessionManager / websocket_endpoint    *)
(*    (backend/core/session_callbacks.py, backend/main_with_callbacks.py): *)
(*    the registry, the turn-loop thread, the inbound channel, the         *)
(*    outbound queue and its drain tasks.  Specification Spec.             *)
(*                                                                         *)
(* The agent engine (langroid) and the transport (the ASGI server) are     *)
(* external: the engine is a nondeterministic caller of the hooks, the     *)
(* transport a connection that opens, closes and accepts writes.           *)
(***************************************************************************)
EXTENDS Integers, Sequences, FiniteSets, TLC

(***************************************************************************)
(* Bounds of the model.                                                    *)
(***************************************************************************)
\* longest finalized content, in characters
MaxLen == 2
\* turns (calls of the llm_response wrapper) of one callbacks object
MaxTurns == 2
\* hook invocations by the engine on one callbacks object
MaxHookCalls == 4
\* sessions the registry creates
MaxSessions == 2
\* sessions created while the sessions' traffic is followed
MaxServed == 1
\* transport connections accepted by the endpoint
MaxConns == 2
\* frames received from clients plus messages handed to _queue_message
MaxTraffic == 3
\* frames a ChatSession receives
MaxFrames == 3
\* calls of attach_to_agent on one agent
MaxAttaches == 2

(***************************************************************************)
(* Text.  A str is a sequence of characters; " " stands for whitespace.    *)
(***************************************************************************)
Chars == {" ", "a"}

Tokens == {<<"a">>, <<" ">>}

\* Python's None, where a str is expected
NoneContent == <<"None">>

RECURSIVE StrsOfLen(_)
StrsOfLen(n) ==
    IF n = 0 THEN {<<>>}
    ELSE {Append(s, c) : s \in StrsOfLen(n - 1), c \in Chars}

Strs == UNION {StrsOfLen(n) : n \in 0..MaxLen}

\* what the engine may hand to a hook as content
Contents == Strs \cup {NoneContent}

RECURSIVE LStrip(_)
LStrip(s) == IF s # <<>> /\ Head(s) = " " THEN LStrip(Tail(s)) ELSE s

RECURSIVE RStrip(_)
RStrip(s) ==
    IF s # <<>> /\ s[Len(s)] = " " THEN RStrip(SubSeq(s, 1, Len(s) - 1)) ELSE s

\* str.strip()
Strip(s) == RStrip(LStrip(s))

\* Python truthiness of an Optional[str]
Truthy(c) == c # NoneContent /\ c # <<>>

\* `content and content.strip()`
NonBlank(c) == Truthy(c) /\ Truthy(Strip(c))

(***************************************************************************)
(* State of one WebSocketCallbacks object and of the engine driving it.    *)
(***************************************************************************)
VARIABLES
    cbSentHashes,      \* _sent_message_hashes
    cbStreamStarted,   \* _stream_started
    cbStreamingTokens, \* _streaming_tokens
    cbCurrentStreamId, \* context.current_stream_id (0 is None)
    cbPrimarySent,     \* _message_sent_by_primary
    cbQueue,           \* every message handed to _queue_message, in order
    cbNextUuid,        \* the next value uuid4() returns
    cbPhase,           \* engine: "idle" or "turn" (inside llm_response)
    cbHandlerId,       \* message_id captured by the token handler the engine holds
    cbTurn,            \* number of turns started
    cbResets,          \* number of ledger resets performed
    cbHookCalls,       \* hook invocations so far
    cbObserved,        \* <<turn, content>> handed to a sender that examined it
    cbSuppressed,      \* <<turn, stripped content>> skipped as already sent
    cbStreams,         \* per stream id: what the engine did with the stream
    cbPrimaryFired     \* the primary sender ran in the current turn

cbVars == <<cbSentHashes, cbStreamStarted, cbStreamingTokens, cbCurrentStreamId,
            cbPrimarySent, cbQueue, cbNextUuid, cbPhase, cbHandlerId, cbTurn,
            cbResets, cbHookCalls, cbObserved, cbSuppressed, cbStreams,
            cbPrimaryFired>>

(***************************************************************************)
(* State of the registry (CallbackSessionManager), of its sessions         *)
(* (CallbackChatSession), of the endpoint handlers and of the event loop.  *)
(***************************************************************************)
VARIABLES
    sessions,         \* CallbackSessionManager.sessions: the registered ids
    browser_sessions, \* CallbackSessionManager.browser_sessions (0: no entry)
    sess,             \* per session id: the CallbackChatSession object
    conn,             \* per connection: the transport and its endpoint handler
    drain,            \* per drain task: a _process_outgoing_messages task
    loopCalls,        \* callbacks scheduled with call_soon_threadsafe, in order
    loopBlocked,      \* session whose stop() blocks the loop in join (0: none)
    cleanup,          \* cleanup_all: whether it was called, the ids still to remove
    nextSessionId,    \* sessions created so far
    nextConn,         \* connections accepted so far
    nextDrain,        \* drain tasks created so far
    nextSeq,          \* messages handed to _queue_message so far
    nextInput,        \* frames received so far
    accepted,         \* per session: the texts put on the inbound channel, in order
    cleared,          \* per session: numbers of the texts a reconnection discarded
    received,         \* per session: what get_user_response took off the channel
    written           \* per session: what was written to which transport, in order

sessVars == <<sessions, browser_sessions, sess, conn, drain, loopCalls,
              loopBlocked, cleanup, nextSessionId, nextConn, nextDrain, nextSeq, nextInput,
              accepted, cleared, received, written>>

(***************************************************************************)
(* State of one ChatSession (backend/core/session.py) with the input side  *)
(* of its WebUICallbacks (backend/core/callbacks.py).                      *)
(***************************************************************************)
VARIABLES
    csRunning,        \* ChatSession.running
    csThread,         \* per thread ever started by _start_task_loop: where it is
    csStarts,         \* threads started so far; task_thread is the latest
    csWaiting,        \* WebUICallbacks.waiting_for_user
    csQueue,          \* WebUICallbacks.user_input_queue
    csJoin,           \* the command whose stop() blocks the loop in join
    csFrames          \* frames received so far

csVars == <<csRunning, csThread, csStarts, csWaiting, csQueue, csJoin, csFrames>>

(***************************************************************************)
(* State of one WebUICallbacks object (backend/core/callbacks.py) and of   *)
(* the engine driving its synchronous hooks.                               *)
(***************************************************************************)
VARIABLES
    uiCurrentStreamId, \* current_stream_id (0 is None)
    uiStreamStarted,   \* stream_started
    uiStreamBuffer,    \* number of tokens in stream_buffer
    uiCachedSent,      \* cached_message_sent
    uiQueue,           \* every message handed to _queue_message, in order
    uiNextUuid,        \* the next value uuid4() returns
    uiPhase,           \* engine: "idle" or "turn" (inside llm_response)
    uiHandler,         \* the engine holds the token handler of start_llm_stream
    uiAsyncHandler,    \* the engine holds the one of start_llm_stream_async
    uiTurn,            \* number of turns started
    uiHookCalls,       \* hook invocations so far
    uiFinalized        \* <<turn, content>> of the responses llm_response_messages returned

uiVars == <<uiCurrentStreamId, uiStreamStarted, uiStreamBuffer, uiCachedSent,
            uiQueue, uiNextUuid, uiPhase, uiHandler, uiAsyncHandler, uiTurn,
            uiHookCalls, uiFinalized>>

(***************************************************************************)
(* Hook invocations of one WebSocketCallbacks object that run on threads   *)
(* of their own, each between the statements of show_llm_response.         *)
(***************************************************************************)
VARIABLES
    hookThread         \* per thread: where it is in the hook, and with which content

lgVars == <<hookThread>>

(***************************************************************************)
(* State of the proof-of-concept server (backend/poc_main.py): one         *)
(* connection with its POCSession and WebUICallbacks.                      *)
(***************************************************************************)
VARIABLES
    pocPc,             \* websocket_endpoint: where the handler is
    pocWs,             \* the transport: "none", "open", "closed"
    pocThread,         \* the thread of start_conversation: where it is
    pocWaiting,        \* WebUICallbacks.waiting_for_user
    pocUserInputQueue, \* WebUICallbacks.user_input_queue
    pocLoopCalls,      \* puts scheduled with run_coroutine_threadsafe, in order
    pocMessageQueue,   \* WebUICallbacks.message_queue
    pocDrain,          \* the _process_messages task: "none", "running", "done"
    pocWritten,        \* what was written to the transport, in order
    pocReturned,       \* the texts the input waits returned, in order
    pocSubmitted,      \* the texts handed to handle_user_message
    pocFrames,         \* frames received so far
    pocEvents          \* messages handed to _queue_message so far

pocVars == <<pocPc, pocWs, pocThread, pocWaiting, pocUserInputQueue, pocLoopCalls,
             pocMessageQueue, pocDrain, pocWritten, pocReturned, pocSubmitted,
             pocFrames, pocEvents>>

(***************************************************************************)
(* State of an agent and of the WebSocketCallbacks object attached to it:  *)
(* what the agent's attributes are bound to.                               *)
(***************************************************************************)
VARIABLES
    agPhase,           \* "none", "created", "attached", "detached"
    agMethods,         \* per method name: what agent.<name> is bound to
    agOriginals,       \* per method name: what agent._original_<name> is bound to
    agCallbacks,       \* per hook name: what agent.callbacks.<name> is bound to
    overriddenMethods, \* WebSocketCallbacks._overridden_methods
    agAttaches         \* calls of attach_to_agent so far

atVars == <<agPhase, agMethods, agOriginals, agCallbacks, overriddenMethods, agAttaches>>

vars == <<cbVars, sessVars, csVars, uiVars, lgVars, pocVars, atVars>>

(***************************************************************************)
(* Messages (backend/models/messages.py), each with the turn it was        *)
(* queued in.                                                              *)
(***************************************************************************)
StreamStart(id) ==
    [type |-> "stream_start", id |-> id, content |-> <<>>, sender |-> "assistant"]

StreamToken(id, tok) ==
    [type |-> "stream_token", id |-> id, content |-> tok, sender |-> "assistant"]

StreamEnd(id) ==
    [type |-> "stream_end", id |-> id, content |-> <<>>, sender |-> "assistant"]

CompleteMessage(id, c, who) ==
    [type |-> "message", id |-> id, content |-> c, sender |-> who]

(***************************************************************************)
(* WebSocketCallbacks: utility methods.                                    *)
(***************************************************************************)
\* sha256(content)[:16]: distinct contents of the model get distinct hashes
GetMessageHash(c) == <<"sha256", c>>

IsMessageAlreadySent(c, hashes) ==
    IF ~NonBlank(c) THEN TRUE
    ELSE GetMessageHash(Strip(c)) \in hashes

\* mutant: the fingerprint is never recorded
MarkMessageAsSentForgets(c, hashes) == hashes

MarkMessageAsSent(c, hashes) ==
    IF NonBlank(c) THEN hashes \cup {GetMessageHash(Strip(c))} ELSE hashes

\* mutant: the reset leaves the fingerprints in place
ResetKeepsHashes == cbSentHashes

\* the ledger after _reset_deduplication_state
ResetDeduplicationState == {}

\* _queue_message: the put is scheduled on the loop in call order
QueueMessage(q, m) == Append(q, [msg |-> m, turn |-> cbTurn])

\* _send_assistant_message: the queue after the call
SendAssistantMessage(q, c, id) ==
    IF ~NonBlank(c) THEN q ELSE QueueMessage(q, CompleteMessage(id, c, "assistant"))

(***************************************************************************)
(* The engine's bookkeeping of a stream (not program state).               *)
(***************************************************************************)
NewStream == [tokens |-> <<>>, state |-> "open", content |-> NoneContent, turn |-> cbTurn]

InTurn == cbPhase = "turn" /\ cbHookCalls < MaxHookCalls

(***************************************************************************)
(* WebSocketCallbacks: method overrides.                                   *)
(***************************************************************************)
\* _llm_response_with_context up to the call of the original llm_response
LlmResponseWithContext ==
    /\ cbPhase = "idle"
    /\ cbTurn < MaxTurns
    /\ cbSentHashes' = ResetDeduplicationState
    /\ cbResets' = cbResets + 1
    /\ cbPrimaryFired' = FALSE
    /\ cbPrimarySent' = FALSE
    /\ cbStreamStarted' = FALSE
    /\ cbTurn' = cbTurn + 1
    /\ cbPhase' = "turn"
    /\ UNCHANGED <<cbStreamingTokens, cbCurrentStreamId, cbQueue, cbNextUuid,
                   cbHandlerId, cbHookCalls, cbObserved, cbSuppressed, cbStreams>>

\* _llm_response_async_with_context up to the await of the original
LlmResponseAsyncWithContext == LlmResponseWithContext

\* the original llm_response returns; the engine drops its token handler
LlmResponseReturn ==
    /\ cbPhase = "turn"
    /\ UNCHANGED cbPrimaryFired
    /\ cbPhase' = "idle"
    /\ cbHandlerId' = 0
    /\ UNCHANGED <<cbSentHashes, cbStreamStarted, cbStreamingTokens,
                   cbCurrentStreamId, cbPrimarySent, cbQueue, cbNextUuid, cbTurn,
                   cbResets, cbHookCalls, cbObserved, cbSuppressed, cbStreams>>

\* _llm_response_messages_with_context / ..._async_with_context after the
\* original returned a response whose content is c (PRIMARY sender)
PrimarySender(c) ==
    /\ InTurn
    /\ cbPrimaryFired' = TRUE
    /\ cbHookCalls' = cbHookCalls + 1
    /\ cbObserved' = cbObserved \cup {<<cbTurn, c>>}
    /\ IF ~Truthy(c)
       THEN UNCHANGED <<cbSentHashes, cbPrimarySent, cbQueue, cbNextUuid, cbSuppressed>>
       ELSE LET content == Strip(c) IN
            IF IsMessageAlreadySent(content, cbSentHashes)
            THEN /\ cbSuppressed' =
                      IF NonBlank(c) THEN cbSuppressed \cup {<<cbTurn, content>>}
                      ELSE cbSuppressed
                 /\ UNCHANGED <<cbSentHashes, cbPrimarySent, cbQueue, cbNextUuid>>
            ELSE /\ cbQueue' = SendAssistantMessage(cbQueue, content, cbNextUuid)
                 /\ cbNextUuid' = cbNextUuid + 1
                 /\ cbSentHashes' = MarkMessageAsSent(content, cbSentHashes)
                 /\ cbPrimarySent' = TRUE
                 /\ UNCHANGED cbSuppressed
    /\ UNCHANGED <<cbStreamStarted, cbStreamingTokens, cbCurrentStreamId, cbPhase,
                   cbHandlerId, cbTurn, cbResets, cbStreams>>

LlmResponseMessagesWithContext == \E c \in Contents : PrimarySender(c)

LlmResponseMessagesAsyncWithContext == \E c \in Contents : PrimarySender(c)

(***************************************************************************)
(* WebSocketCallbacks: streaming callbacks.                                *)
(***************************************************************************)
StartLlmStream ==
    /\ InTurn
    /\ UNCHANGED cbPrimaryFired
    /\ cbHandlerId = 0
    /\ cbHookCalls' = cbHookCalls + 1
    /\ cbStreamStarted' = TRUE
    /\ cbStreamingTokens' = <<>>
    /\ cbCurrentStreamId' = cbNextUuid
    /\ cbNextUuid' = cbNextUuid + 1
    /\ cbQueue' = QueueMessage(cbQueue, StreamStart(cbNextUuid))
    /\ cbHandlerId' = cbNextUuid
    /\ cbStreams' = (cbNextUuid :> NewStream) @@ cbStreams
    /\ UNCHANGED <<cbSentHashes, cbPrimarySent, cbPhase, cbTurn, cbResets,
                   cbObserved, cbSuppressed>>

\* the closure stream_token returned by start_llm_stream
StreamTokenHandler(tok) ==
    /\ InTurn
    /\ UNCHANGED cbPrimaryFired
    /\ cbHandlerId # 0
    /\ cbHookCalls' = cbHookCalls + 1
    /\ cbStreamingTokens' = Append(cbStreamingTokens, tok)
    /\ cbQueue' = QueueMessage(cbQueue, StreamToken(cbHandlerId, tok))
    /\ cbStreams' = [cbStreams EXCEPT ![cbHandlerId].tokens = Append(@, tok)]
    /\ UNCHANGED <<cbSentHashes, cbStreamStarted, cbCurrentStreamId, cbPrimarySent,
                   cbNextUuid, cbPhase, cbHandlerId, cbTurn, cbResets, cbObserved,
                   cbSuppressed>>

StreamTokenCall == \E tok \in Tokens : StreamTokenHandler(tok)

\* the engine's record of the stream it is finishing
EngineFinishes(c, how) ==
    IF cbHandlerId # 0
    THEN [cbStreams EXCEPT ![cbHandlerId].state = how, ![cbHandlerId].content = c]
    ELSE cbStreams

\* mutant: finish_llm_stream ends the stream and never sends the content
FinishLlmStreamNoFallback(c) ==
    /\ InTurn
    /\ UNCHANGED cbPrimaryFired
    /\ cbHookCalls' = cbHookCalls + 1
    /\ cbHandlerId' = 0
    /\ cbStreams' = EngineFinishes(c, "finished")
    /\ IF ~cbStreamStarted
       THEN UNCHANGED <<cbSentHashes, cbStreamStarted, cbCurrentStreamId, cbQueue,
                        cbObserved, cbSuppressed>>
       ELSE LET message_id == cbCurrentStreamId
                ended == QueueMessage(cbQueue, StreamEnd(message_id))
            IN  /\ cbObserved' = cbObserved \cup {<<cbTurn, c>>}
                /\ cbStreamStarted' = FALSE
                /\ cbCurrentStreamId' = 0
                /\ IF ~NonBlank(c)
                   THEN /\ cbQueue' = ended
                        /\ UNCHANGED <<cbSentHashes, cbSuppressed>>
                   ELSE IF IsMessageAlreadySent(Strip(c), cbSentHashes)
                   THEN /\ cbQueue' = ended
                        /\ cbSuppressed' = cbSuppressed \cup {<<cbTurn, Strip(c)>>}
                        /\ UNCHANGED cbSentHashes
                   ELSE /\ cbQueue' = ended
                        /\ UNCHANGED <<cbSentHashes, cbSuppressed>>
    /\ UNCHANGED <<cbStreamingTokens, cbPrimarySent, cbNextUuid, cbPhase, cbTurn,
                   cbResets>>

\* finish_llm_stream
FinishLlmStream(c) ==
    /\ InTurn
    /\ UNCHANGED cbPrimaryFired
    /\ cbHookCalls' = cbHookCalls + 1
    /\ cbHandlerId' = 0
    /\ cbStreams' = EngineFinishes(c, "finished")
    /\ IF ~cbStreamStarted
       THEN UNCHANGED <<cbSentHashes, cbStreamStarted, cbCurrentStreamId, cbQueue,
                        cbObserved, cbSuppressed>>
       ELSE LET message_id == cbCurrentStreamId
                ended == QueueMessage(cbQueue, StreamEnd(message_id))
            IN  /\ cbObserved' = cbObserved \cup {<<cbTurn, c>>}
                /\ cbStreamStarted' = FALSE
                /\ cbCurrentStreamId' = 0
                /\ IF ~NonBlank(c)
                   THEN /\ cbQueue' = ended
                        /\ UNCHANGED <<cbSentHashes, cbSuppressed>>
                   ELSE IF IsMessageAlreadySent(Strip(c), cbSentHashes)
                   THEN /\ cbQueue' = ended
                        /\ cbSuppressed' = cbSuppressed \cup {<<cbTurn, Strip(c)>>}
                        /\ UNCHANGED cbSentHashes
                   ELSE /\ cbQueue' = QueueMessage(ended,
                                          CompleteMessage(message_id, c, "assistant"))
                        /\ cbSentHashes' = MarkMessageAsSent(Strip(c), cbSentHashes)
                        /\ UNCHANGED cbSuppressed
    /\ UNCHANGED <<cbStreamingTokens, cbPrimarySent, cbNextUuid, cbPhase, cbTurn,
                   cbResets>>

FinishLlmStreamCall == \E c \in Contents : FinishLlmStream(c)

CancelLlmStream ==
    /\ InTurn
    /\ UNCHANGED cbPrimaryFired
    /\ cbHookCalls' = cbHookCalls + 1
    /\ cbHandlerId' = 0
    /\ cbStreams' = EngineFinishes(NoneContent, "cancelled")
    /\ IF cbStreamStarted
       THEN /\ cbQueue' = QueueMessage(cbQueue, StreamEnd(cbCurrentStreamId))
            /\ cbStreamStarted' = FALSE
       ELSE UNCHANGED <<cbQueue, cbStreamStarted>>
    /\ UNCHANGED <<cbSentHashes, cbStreamingTokens, cbCurrentStreamId, cbPrimarySent,
                   cbNextUuid, cbPhase, cbTurn, cbResets, cbObserved, cbSuppressed>>

(***************************************************************************)
(* WebSocketCallbacks: display callbacks.                                  *)
(***************************************************************************)
\* mutant: the fallback sends whatever it is handed
ShowLlmResponseUnguarded(c) ==
    /\ InTurn
    /\ UNCHANGED cbPrimaryFired
    /\ cbHookCalls' = cbHookCalls + 1
    /\ cbObserved' = cbObserved \cup {<<cbTurn, c>>}
    /\ cbQueue' = QueueMessage(cbQueue, CompleteMessage(cbNextUuid, c, "assistant"))
    /\ cbNextUuid' = cbNextUuid + 1
    /\ cbSentHashes' = MarkMessageAsSent(Strip(c), cbSentHashes)
    /\ UNCHANGED <<cbStreamStarted, cbStreamingTokens, cbCurrentStreamId,
                   cbPrimarySent, cbPhase, cbHandlerId, cbTurn, cbResets, cbStreams,
                   cbSuppressed>>

\* mutant: the fallback fingerprints the text as it was handed over
ShowLlmResponseUntrimmed(c) ==
    /\ InTurn
    /\ UNCHANGED cbPrimaryFired
    /\ cbHookCalls' = cbHookCalls + 1
    /\ cbObserved' = cbObserved \cup {<<cbTurn, c>>}
    /\ IF ~NonBlank(c)
       THEN UNCHANGED <<cbSentHashes, cbQueue, cbNextUuid, cbSuppressed>>
       ELSE IF GetMessageHash(c) \in cbSentHashes
       THEN /\ cbSuppressed' = cbSuppressed \cup {<<cbTurn, Strip(c)>>}
            /\ UNCHANGED <<cbSentHashes, cbQueue, cbNextUuid>>
       ELSE /\ cbQueue' = QueueMessage(cbQueue,
                              CompleteMessage(cbNextUuid, c, "assistant"))
            /\ cbNextUuid' = cbNextUuid + 1
            /\ cbSentHashes' = cbSentHashes \cup {GetMessageHash(c)}
            /\ UNCHANGED cbSuppressed
    /\ UNCHANGED <<cbStreamStarted, cbStreamingTokens, cbCurrentStreamId,
                   cbPrimarySent, cbPhase, cbHandlerId, cbTurn, cbResets, cbStreams>>

ShowLlmResponse(c) ==
    /\ InTurn
    /\ UNCHANGED cbPrimaryFired
    /\ cbHookCalls' = cbHookCalls + 1
    /\ cbObserved' = cbObserved \cup {<<cbTurn, c>>}
    /\ IF ~NonBlank(c)
       THEN UNCHANGED <<cbSentHashes, cbQueue, cbNextUuid, cbSuppressed>>
       ELSE IF IsMessageAlreadySent(Strip(c), cbSentHashes)
       THEN /\ cbSuppressed' = cbSuppressed \cup {<<cbTurn, Strip(c)>>}
            /\ UNCHANGED <<cbSentHashes, cbQueue, cbNextUuid>>
       ELSE /\ cbQueue' = QueueMessage(cbQueue,
                              CompleteMessage(cbNextUuid, c, "assistant"))
            /\ cbNextUuid' = cbNextUuid + 1
            /\ cbSentHashes' = MarkMessageAsSent(Strip(c), cbSentHashes)
            /\ UNCHANGED cbSuppressed
    /\ UNCHANGED <<cbStreamStarted, cbStreamingTokens, cbCurrentStreamId,
                   cbPrimarySent, cbPhase, cbHandlerId, cbTurn, cbResets, cbStreams>>

ShowLlmResponseCall == \E c \in Contents : ShowLlmResponse(c)

\* show_error_message: the text is "Error: " followed by the error
ShowErrorMessage ==
    /\ InTurn
    /\ UNCHANGED cbPrimaryFired
    /\ cbHookCalls' = cbHookCalls + 1
    /\ \E e \in {<<>>, <<"a">>} :
          cbQueue' = QueueMessage(cbQueue,
                         CompleteMessage(cbNextUuid, <<"E">> \o e, "system"))
    /\ cbNextUuid' = cbNextUuid + 1
    /\ UNCHANGED <<cbSentHashes, cbStreamStarted, cbStreamingTokens,
                   cbCurrentStreamId, cbPrimarySent, cbPhase, cbHandlerId, cbTurn,
                   cbResets, cbObserved, cbSuppressed, cbStreams>>

(***************************************************************************)
(* Sessions, connections and drain tasks.                                  *)
(***************************************************************************)
SessionIds == 1..MaxSessions

ConnIds == 1..MaxConns

\* every call of start() creates one drain task
DrainIds == 1..MaxConns

\* the query parameter browser_session_id is absent
NoBrowser == "None"

TrackedBrowsers == {"b1"}

BrowserIds == TrackedBrowsers \cup {NoBrowser}

\* the "type" of a frame a client sends
FrameTypes == {"message", "user_input", "ping", "command"}

\* mutant: handle_message takes every frame that is not a ping for user text
TextFramesAny == {"message", "user_input", "command"}

\* the frame types that carry user text
TextFrames == {"message", "user_input"}

\* how websocket.send_json fails: str(e) mentions "WebSocket"/"not connected", or not
SendErrors == {"websocket", "other"}

\* a CallbackChatSession before __init__
NoSession ==
    [websocket |-> 0, running |-> FALSE, wsState |-> "connected",
     taskPaused |-> FALSE, pauseEvent |-> TRUE, userInputQueue |-> <<>>,
     outgoingQueue |-> <<>>, thread |-> "none", threadsStarted |-> 0,
     processorTask |-> 0, streamOpen |-> 0, lastHow |-> "none", lastText |-> "none",
     exit |-> "none", gated |-> FALSE]

\* mutant: every new session is bound to the first connection's handle
NewSessionFirstHandle(w) == [NoSession EXCEPT !.websocket = 1]

\* CallbackChatSession.__init__
NewSession(w) == [NoSession EXCEPT !.websocket = w]

NoConn ==
    [state |-> "unused", browser |-> NoBrowser, session |-> 0, pc |-> "none",
     isNew |-> FALSE, prior |-> 0, blockedAtConnect |-> FALSE]

NoDrain == [session |-> 0, pc |-> "none"]

\* ConnectionStatus(type="connection", status="connected"), written by start()
ConnectionStatus == [seq |-> 0, kind |-> "connection", stream |-> 0]

Pong == [seq |-> 0, kind |-> "pong", stream |-> 0]

\* the "" that stop() puts on the inbound channel
StopSentinel == [text |-> "", n |-> 0, via |-> 0]

\* the numbers of the user texts waiting on an inbound channel
InputIds(q) == {q[i].n : i \in DOMAIN q} \ {0}

\* gated records that the pending input request found the pause gate closed
\* and that the state has not been CONNECTED since
PauseTask(r) ==
    IF ~r.taskPaused THEN [r EXCEPT !.taskPaused = TRUE, !.pauseEvent = FALSE] ELSE r

ResumeTask(r) ==
    IF r.taskPaused THEN [r EXCEPT !.taskPaused = FALSE, !.pauseEvent = TRUE] ELSE r

\* WebSocketState
WsStates == {"connected", "disconnected", "reconnecting"}

\* mutant: the task is resumed only when the state before was DISCONNECTED
SetWebsocketStateFromDisconnected(r, state) ==
    LET r1 == [r EXCEPT !.wsState = state,
                        !.gated = IF state = "connected" THEN FALSE ELSE @]
    IN  IF state = "disconnected" THEN PauseTask(r1)
        ELSE IF state = "connected" /\ r.wsState = "disconnected" THEN ResumeTask(r1)
        ELSE r1

SetWebsocketState(r, state) ==
    LET r1 == [r EXCEPT !.wsState = state,
                        !.gated = IF state = "connected" THEN FALSE ELSE @]
    IN  IF state = "disconnected" THEN PauseTask(r1)
        ELSE IF state = "connected" /\ r.wsState # "connected" THEN ResumeTask(r1)
        ELSE r1

\* mutant: handle_message does not test the connection state
IsWebsocketConnectedAlways(r) == TRUE

\* is_websocket_connected
IsWebsocketConnected(r) == r.wsState = "connected"

\* mutant: the inbound channel is kept across a reconnection
ClearStaleUserInputKeeps(r) == r

\* _clear_stale_user_input
ClearStaleUserInput(r) == [r EXCEPT !.userInputQueue = <<>>]

\* _send_message on a transport in state `state`: the session afterwards and
\* whether the message was written
SendMessage(r, state, err) ==
    IF state = "open" THEN [sess |-> r, sent |-> TRUE]
    ELSE IF state = "broken"
    THEN IF err = "websocket"
         THEN [sess |-> [SetWebsocketState(r, "disconnected") EXCEPT !.running = FALSE],
               sent |-> FALSE]
         ELSE [sess |-> r, sent |-> FALSE]
    ELSE [sess |-> SetWebsocketState(r, "disconnected"), sent |-> FALSE]

\* the log of a session after _send_message
Written(s, w, ev, sent) ==
    IF sent THEN [written EXCEPT ![s] = Append(@, [to |-> w, ev |-> ev])] ELSE written

\* mutant: start() writes no connection status
SendConnectionStatusSkipped(s, w) == written

\* start(): the connection status is handed to _send_message before anything
\* else is awaited
SendConnectionStatus(s, w) == Written(s, w, ConnectionStatus, TRUE)

\* mutant: start() starts a turn-loop thread on every call
ShouldStartThreadAlways(send_greeting, r) == TRUE

\* start(): send_greeting and (not self._task_thread or not is_alive())
ShouldStartThread(send_greeting, r) ==
    send_greeting /\ r.thread \in {"none", "done"}

\* the session, if any, that earlier connections of browser b hold and that
\* is still registered
PriorSession(b) ==
    LET held == {conn[w].session : w \in {x \in 1..nextConn :
                     conn[x].browser = b /\ conn[x].session \in sessions}}
    IN  IF b = NoBrowser \/ held = {} THEN 0 ELSE CHOOSE s \in held : TRUE

\* session p is registered, its turn-loop is blocked in the input wait and a
\* transport of p has been disconnected
BlockedAndDropped(p) ==
    /\ p # 0
    /\ sess[p].thread = "input_wait"
    /\ \E w \in 1..nextConn :
          conn[w].session = p /\ conn[w].state \in {"broken", "closed"}

\* mutant: create_or_get_session never looks the browser identity up
ReusesNever(b) == FALSE

\* create_or_get_session finds a registered session for browser identity b
Reuses(b) ==
    /\ b \in TrackedBrowsers
    /\ browser_sessions[b] # 0
    /\ browser_sessions[b] \in sessions

\* websocket_endpoint up to its first suspension: create_or_get_session,
\* initialize for a new session, start() up to the sleep or to the end
Connect(b) ==
    /\ loopBlocked = 0
    /\ ~cleanup.started
    /\ nextConn < MaxConns
    /\ LET w == nextConn + 1
           d == nextDrain + 1
           reuse == Reuses(b)
           s == IF reuse THEN browser_sessions[b] ELSE nextSessionId + 1
       IN  /\ reuse \/ nextSessionId < MaxSessions
           /\ LET r0 == IF reuse
                        THEN SetWebsocketState(
                                 [ClearStaleUserInput(sess[s]) EXCEPT
                                     !.websocket = w, !.outgoingQueue = <<>>],
                                 "connected")
                        ELSE NewSession(w)
                  r1 == [r0 EXCEPT !.running = TRUE, !.processorTask = d]
              IN  /\ sess' = [sess EXCEPT ![s] = r1]
                  /\ conn' = [conn EXCEPT ![w] =
                        [state |-> "open", browser |-> b, session |-> s,
                         pc |-> IF ShouldStartThread(~reuse, r1)
                                THEN "sleeping" ELSE "receive",
                         isNew |-> ~reuse, prior |-> PriorSession(b),
                         blockedAtConnect |-> BlockedAndDropped(PriorSession(b))]]
           /\ written' = SendConnectionStatus(s, w)
           /\ drain' = [drain EXCEPT ![d] = [session |-> s, pc |-> "running"]]
           /\ cleared' = IF reuse
                         THEN [cleared EXCEPT ![s] = @ \cup InputIds(sess[s].userInputQueue)]
                         ELSE cleared
           /\ sessions' = sessions \cup {s}
           /\ browser_sessions' =
                 IF ~reuse /\ b \in TrackedBrowsers
                 THEN [browser_sessions EXCEPT ![b] = s] ELSE browser_sessions
           /\ nextSessionId' = IF reuse THEN nextSessionId ELSE s
           /\ nextConn' = w
           /\ nextDrain' = d
    /\ UNCHANGED <<loopCalls, loopBlocked, cleanup, nextSeq, nextInput, accepted,
                   received>>

\* threading.Thread(target=self._run_task, name=...): no daemon argument, so
\* the thread takes the flag of the thread that creates it, which is not a daemon
TaskThreadDaemon == FALSE

\* start() after asyncio.sleep(0.1): the turn-loop thread is started
StartTaskThread(w) ==
    /\ loopBlocked = 0
    /\ conn[w].pc = "sleeping"
    /\ sess' = [sess EXCEPT ![conn[w].session].thread = "engine",
                            ![conn[w].session].threadsStarted = @ + 1]
    /\ conn' = [conn EXCEPT ![w].pc = "receive"]
    /\ UNCHANGED <<sessions, browser_sessions, drain, loopCalls, loopBlocked, cleanup,
                   nextSessionId, nextConn, nextDrain, nextSeq, nextInput,
                   accepted, cleared, received, written>>

\* the receive loop gets a frame of type t and calls handle_message
HandleMessage(w, t) ==
    /\ loopBlocked = 0
    /\ conn[w].pc = "receive"
    /\ conn[w].state = "open"
    /\ nextInput + nextSeq < MaxTraffic
    /\ nextInput' = nextInput + 1
    /\ LET s == conn[w].session
           r == sess[s]
           n == nextInput + 1
       IN  IF t \in TextFrames
           THEN /\ IF IsWebsocketConnected(r)
                   THEN /\ sess' = [sess EXCEPT ![s].userInputQueue =
                                       Append(@, [text |-> "hi", n |-> n, via |-> w])]
                        /\ accepted' = [accepted EXCEPT ![s] =
                              Append(@, [n |-> n, blocked |-> r.thread = "input_wait"])]
                   ELSE UNCHANGED <<sess, accepted>>
                /\ UNCHANGED written
           ELSE IF t = "ping"
           THEN \E err \in SendErrors :
                   LET res == SendMessage(r, conn[r.websocket].state, err)
                   IN  /\ sess' = [sess EXCEPT ![s] = res.sess]
                       /\ written' = Written(s, r.websocket, Pong, res.sent)
                       /\ UNCHANGED accepted
           ELSE UNCHANGED <<sess, accepted, written>>
    /\ UNCHANGED <<sessions, browser_sessions, conn, drain, loopCalls, loopBlocked, cleanup,
                   nextSessionId, nextConn, nextDrain, nextSeq, cleared, received>>

\* the client goes away; the endpoint has not yet seen it
PeerDisconnect(w) ==
    /\ conn[w].state = "open"
    /\ conn' = [conn EXCEPT ![w].state = "broken"]
    /\ UNCHANGED <<sessions, browser_sessions, sess, drain, loopCalls, loopBlocked, cleanup,
                   nextSessionId, nextConn, nextDrain, nextSeq, nextInput,
                   accepted, cleared, received, written>>

\* mutant: the handler's finally clause removes the session it served
ReceiveLoopBreaksRemoves(w) ==
    /\ loopBlocked = 0
    /\ conn[w].pc = "receive"
    /\ conn[w].state = "broken"
    /\ conn' = [conn EXCEPT ![w].state = "closed", ![w].pc = "finished"]
    /\ sessions' = sessions \ {conn[w].session}
    /\ UNCHANGED <<browser_sessions, sess, drain, loopCalls, loopBlocked, cleanup,
                   nextSessionId, nextConn, nextDrain, nextSeq, nextInput,
                   accepted, cleared, received, written>>

\* receive_json raises in the receive loop, which breaks; the handler ends
ReceiveLoopBreaks(w) ==
    /\ loopBlocked = 0
    /\ conn[w].pc = "receive"
    /\ conn[w].state = "broken"
    /\ conn' = [conn EXCEPT ![w].state = "closed", ![w].pc = "finished"]
    /\ UNCHANGED <<sessions, browser_sessions, sess, drain, loopCalls, loopBlocked, cleanup,
                   nextSessionId, nextConn, nextDrain, nextSeq, nextInput,
                   accepted, cleared, received, written>>

\* set_websocket_state called on a registered session with any state
SetWebsocketStateCall(s, state) ==
    /\ s \in sessions
    /\ sess' = [sess EXCEPT ![s] = SetWebsocketState(sess[s], state)]
    /\ UNCHANGED <<sessions, browser_sessions, conn, drain, loopCalls, loopBlocked, cleanup,
                   nextSessionId, nextConn, nextDrain, nextSeq, nextInput,
                   accepted, cleared, received, written>>

(***************************************************************************)
(* The turn-loop thread: _run_task around the engine's task.run().         *)
(***************************************************************************)
\* the kinds of message the hooks may hand to _queue_message next
NextKinds(r) ==
    IF r.streamOpen = 0 THEN {"stream_start", "message"}
    ELSE {"stream_token", "stream_end"}

\* a hook of WebSocketCallbacks calls _queue_message: the put is scheduled
\* on the loop with call_soon_threadsafe
EngineQueueMessage(s, kind) ==
    /\ sess[s].thread = "engine"
    /\ nextInput + nextSeq < MaxTraffic
    /\ kind \in NextKinds(sess[s])
    /\ LET n == nextSeq + 1
           id == IF kind = "stream_start" THEN n
                 ELSE IF kind = "message" THEN 0 ELSE sess[s].streamOpen
       IN  /\ nextSeq' = n
           /\ loopCalls' = Append(loopCalls,
                 [session |-> s, ev |-> [seq |-> n, kind |-> kind, stream |-> id]])
           /\ sess' = [sess EXCEPT ![s].streamOpen =
                 IF kind = "stream_start" THEN n
                 ELSE IF kind = "stream_end" THEN 0 ELSE @]
    /\ UNCHANGED <<sessions, browser_sessions, conn, drain, loopBlocked, cleanup,
                   nextSessionId, nextConn, nextDrain, nextInput, accepted,
                   cleared, received, written>>

\* get_user_response is entered: the pause gate is tested
GetUserResponse(s) ==
    /\ sess[s].thread = "engine"
    /\ sess' = [sess EXCEPT ![s].thread =
                   IF sess[s].pauseEvent THEN "input_wait" ELSE "pause_wait",
                            ![s].gated = ~sess[s].pauseEvent]
    /\ UNCHANGED <<sessions, browser_sessions, conn, drain, loopCalls, loopBlocked, cleanup,
                   nextSessionId, nextConn, nextDrain, nextSeq, nextInput,
                   accepted, cleared, received, written>>

\* pause_event.wait(timeout=300) returns: the gate opened, or 300 s went by
PauseWaitReturns(s) ==
    /\ sess[s].thread = "pause_wait"
    /\ sess' = [sess EXCEPT ![s].thread = "input_wait"]
    /\ UNCHANGED <<sessions, browser_sessions, conn, drain, loopCalls, loopBlocked, cleanup,
                   nextSessionId, nextConn, nextDrain, nextSeq, nextInput,
                   accepted, cleared, received, written>>

\* mutant: the inbound channel hands out its newest entry
QueueGetLast(q) == [item |-> q[Len(q)], rest |-> SubSeq(q, 1, Len(q) - 1)]

\* queue.Queue.get on a non-empty queue
QueueGet(q) == [item |-> Head(q), rest |-> Tail(q)]

\* user_input_queue.get(timeout=300) returns an entry
UserInputGet(s) ==
    /\ sess[s].thread = "input_wait"
    /\ sess[s].userInputQueue # <<>>
    /\ LET got == QueueGet(sess[s].userInputQueue)
       IN  /\ sess' = [sess EXCEPT ![s].userInputQueue = got.rest,
                                   ![s].thread = "engine",
                                   ![s].gated = FALSE,
                                   ![s].lastHow = "message",
                                   ![s].lastText = got.item.text]
           /\ received' = [received EXCEPT ![s] =
                 Append(@, [n |-> got.item.n, via |-> got.item.via,
                            by |-> sess[s].threadsStarted])]
    /\ UNCHANGED <<sessions, browser_sessions, conn, drain, loopCalls, loopBlocked, cleanup,
                   nextSessionId, nextConn, nextDrain, nextSeq, nextInput,
                   accepted, cleared, written>>

\* user_input_queue.get(timeout=300) raises queue.Empty: "" is returned
UserInputTimeout(s) ==
    /\ sess[s].thread = "input_wait"
    /\ sess[s].userInputQueue = <<>>
    /\ sess' = [sess EXCEPT ![s].thread = "engine",
                            ![s].gated = FALSE,
                            ![s].lastHow = "timeout",
                            ![s].lastText = ""]
    /\ UNCHANGED <<sessions, browser_sessions, conn, drain, loopCalls, loopBlocked, cleanup,
                   nextSessionId, nextConn, nextDrain, nextSeq, nextInput,
                   accepted, cleared, received, written>>

\* how task.run() ends
TaskExits == {"returned", "raised"}

\* mutant: _running is cleared after a return only, not in a finally
RunTaskNoFinally(s) ==
    /\ sess[s].thread = "engine"
    /\ \E how \in TaskExits :
          sess' = [sess EXCEPT ![s].thread = "done",
                               ![s].running = IF how = "raised" THEN @ ELSE FALSE,
                               ![s].exit = how]
    /\ UNCHANGED <<sessions, browser_sessions, conn, drain, loopCalls, loopBlocked,
                   cleanup, nextSessionId, nextConn, nextDrain, nextSeq, nextInput,
                   accepted, cleared, received, written>>

\* mutant: an engine exception stops every session
RunTaskStopsAll(s) ==
    /\ sess[s].thread = "engine"
    /\ \E how \in TaskExits :
          sess' = [x \in SessionIds |->
                      IF x = s
                      THEN [sess[x] EXCEPT !.thread = "done", !.running = FALSE,
                                           !.exit = how]
                      ELSE [sess[x] EXCEPT !.running = FALSE]]
    /\ UNCHANGED <<sessions, browser_sessions, conn, drain, loopCalls, loopBlocked,
                   cleanup, nextSessionId, nextConn, nextDrain, nextSeq, nextInput,
                   accepted, cleared, received, written>>

\* task.run() returns or raises: the exception is logged, finally clears _running
RunTaskFinally(s) ==
    /\ sess[s].thread = "engine"
    /\ \E how \in TaskExits :
          sess' = [sess EXCEPT ![s].thread = "done", ![s].running = FALSE,
                               ![s].exit = how]
    /\ UNCHANGED <<sessions, browser_sessions, conn, drain, loopCalls, loopBlocked,
                   cleanup, nextSessionId, nextConn, nextDrain, nextSeq, nextInput,
                   accepted, cleared, received, written>>

(***************************************************************************)
(* The event loop: scheduled puts and the drain tasks.                     *)
(***************************************************************************)
\* mutant: the put jumps the queue
PutMessageFront(q, m) == <<m>> \o q

\* asyncio.Queue.put_nowait
PutMessage(q, m) == Append(q, m)

\* the loop runs the oldest scheduled _put_message
RunPutMessage ==
    /\ loopBlocked = 0
    /\ loopCalls # <<>>
    /\ LET c == Head(loopCalls)
       IN  sess' = [sess EXCEPT ![c.session].outgoingQueue = PutMessage(@, c.ev)]
    /\ loopCalls' = Tail(loopCalls)
    /\ UNCHANGED <<sessions, browser_sessions, conn, drain, loopBlocked, cleanup,
                   nextSessionId, nextConn, nextDrain, nextSeq, nextInput,
                   accepted, cleared, received, written>>

\* one iteration of _process_outgoing_messages: the get returns a message and
\* _send_message is called with it in the same run of the task; then the
\* loop condition is tested
ProcessOutgoingMessage(d) ==
    /\ loopBlocked = 0
    /\ drain[d].pc = "running"
    /\ sess[drain[d].session].outgoingQueue # <<>>
    /\ \E err \in SendErrors :
          LET s == drain[d].session
              r == [sess[s] EXCEPT !.outgoingQueue = Tail(@)]
              res == SendMessage(r, conn[r.websocket].state, err)
          IN  /\ sess' = [sess EXCEPT ![s] = res.sess]
              /\ written' = Written(s, r.websocket, Head(sess[s].outgoingQueue), res.sent)
              /\ drain' = [drain EXCEPT ![d].pc =
                              IF res.sess.running THEN "running" ELSE "done"]
    /\ UNCHANGED <<sessions, browser_sessions, conn, loopCalls, loopBlocked, cleanup,
                   nextSessionId, nextConn, nextDrain, nextSeq, nextInput,
                   accepted, cleared, received>>

\* the get times out on an empty queue and the loop condition is false
ProcessOutgoingExits(d) ==
    /\ loopBlocked = 0
    /\ drain[d].pc = "running"
    /\ sess[drain[d].session].outgoingQueue = <<>>
    /\ ~sess[drain[d].session].running
    /\ drain' = [drain EXCEPT ![d].pc = "done"]
    /\ UNCHANGED <<sessions, browser_sessions, sess, conn, loopCalls, loopBlocked, cleanup,
                   nextSessionId, nextConn, nextDrain, nextSeq, nextInput,
                   accepted, cleared, received, written>>

(***************************************************************************)
(* Shutdown: the lifespan handler calls cleanup_all once the server has    *)
(* stopped serving, which calls remove_session and so stop() per session.  *)
(***************************************************************************)
\* the ids of a set of sessions in the order the dict holds them
RECURSIVE InOrder(_)
InOrder(S) ==
    IF S = {} THEN <<>>
    ELSE LET m == CHOOSE x \in S : \A y \in S : x <= y
         IN  <<m>> \o InOrder(S \ {m})

\* cleanup_all: the ids are copied under the lock
CleanupAll ==
    /\ ~cleanup.started
    /\ nextConn > 0
    /\ \A w \in 1..nextConn : conn[w].pc = "finished"
    /\ cleanup' = [started |-> TRUE, ids |-> InOrder(sessions)]
    /\ UNCHANGED <<sessions, browser_sessions, sess, conn, drain, loopCalls,
                   loopBlocked, nextSessionId, nextConn, nextDrain, nextSeq,
                   nextInput, accepted, cleared, received, written>>

\* stop() from the cancellation of the processor task on
CancelProcessor(s) ==
    LET d == sess[s].processorTask
    IN  IF d # 0 /\ drain[d].pc = "running"
        THEN [drain EXCEPT ![d].pc = "cancelled"] ELSE drain

\* remove_session: the registry entries go; stop() clears _running and, if
\* the thread is alive, puts "" and joins it, which blocks the loop
Unregister(s) ==
    /\ sessions' = sessions \ {s}
    /\ browser_sessions' =
          [b \in TrackedBrowsers |-> IF browser_sessions[b] = s THEN 0
                                     ELSE browser_sessions[b]]
    /\ IF s \notin sessions
       THEN UNCHANGED <<sess, drain, loopBlocked>>
       ELSE IF sess[s].thread \in {"none", "done"}
       THEN /\ sess' = [sess EXCEPT ![s].running = FALSE]
            /\ drain' = CancelProcessor(s)
            /\ UNCHANGED loopBlocked
       ELSE /\ sess' = [sess EXCEPT ![s].running = FALSE,
                                    ![s].userInputQueue = Append(@, StopSentinel)]
            /\ loopBlocked' = s
            /\ UNCHANGED drain

\* cleanup_all calls remove_session for the next id of its copy
RemoveSession(s) ==
    /\ loopBlocked = 0
    /\ cleanup.ids # <<>>
    /\ s = Head(cleanup.ids)
    /\ cleanup' = [cleanup EXCEPT !.ids = Tail(@)]
    /\ Unregister(s)
    /\ UNCHANGED <<conn, loopCalls, nextSessionId, nextConn, nextDrain, nextSeq,
                   nextInput, accepted, cleared, received, written>>

\* remove_session called on the registry for an id it has handed out
RemoveSessionCall(s) ==
    /\ loopBlocked = 0
    /\ s \in 1..nextSessionId
    /\ Unregister(s)
    /\ UNCHANGED <<conn, loopCalls, cleanup, nextSessionId, nextConn, nextDrain,
                   nextSeq, nextInput, accepted, cleared, received, written>>

\* join(timeout=5) returns: the thread ended, or 5 s went by; stop() goes on
JoinReturns ==
    /\ loopBlocked # 0
    /\ drain' = CancelProcessor(loopBlocked)
    /\ loopBlocked' = 0
    /\ UNCHANGED <<sessions, browser_sessions, sess, conn, loopCalls, cleanup,
                   nextSessionId, nextConn, nextDrain, nextSeq, nextInput,
                   accepted, cleared, received, written>>

(***************************************************************************)
(* Specification of the registry with its sessions.                        *)
(***************************************************************************)
InitSess ==
    /\ sessions = {}
    /\ browser_sessions = [b \in TrackedBrowsers |-> 0]
    /\ sess = [s \in SessionIds |-> NoSession]
    /\ conn = [w \in ConnIds |-> NoConn]
    /\ drain = [d \in DrainIds |-> NoDrain]
    /\ loopCalls = <<>>
    /\ loopBlocked = 0
    /\ cleanup = [started |-> FALSE, ids |-> <<>>]
    /\ nextSessionId = 0
    /\ nextConn = 0
    /\ nextDrain = 0
    /\ nextSeq = 0
    /\ nextInput = 0
    /\ accepted = [s \in SessionIds |-> <<>>]
    /\ cleared = [s \in SessionIds |-> {}]
    /\ received = [s \in SessionIds |-> <<>>]
    /\ written = [s \in SessionIds |-> <<>>]

(***************************************************************************)
(* ChatSession: start, the task loop thread, commands and stop.            *)
(***************************************************************************)
\* a reset command starts one more thread
ThreadIds == 1..(MaxFrames + 1)

Commands == {"stop", "clear", "reset", "other"}

CsAlive(t) == csThread[t] \in {"engine", "input_wait"}

\* _start_task_loop: a new thread runs task.run(); no test of the old one
StartTaskLoop == [csThread EXCEPT ![csStarts + 1] = "engine"]

\* SessionManager.create_session: ChatSession.start
ChatSessionStart ==
    /\ csStarts = 0
    /\ csRunning' = TRUE
    /\ csThread' = StartTaskLoop
    /\ csStarts' = csStarts + 1
    /\ UNCHANGED <<csWaiting, csQueue, csJoin, csFrames>>

\* ChatSession.handle_message with a "message" frame whose content is not empty
ChatSessionMessage ==
    /\ csStarts > 0
    /\ csJoin = "none"
    /\ csFrames < MaxFrames
    /\ csFrames' = csFrames + 1
    /\ csQueue' = Append(csQueue, "hi")
    /\ UNCHANGED <<csRunning, csThread, csStarts, csWaiting, csJoin>>

\* ChatSession.stop: 'q' is put only if a thread is waiting for input
QueueAfterStop == IF csWaiting THEN Append(csQueue, "q") ELSE csQueue

\* ChatSession._handle_command: stop() up to the join, or all of it when
\* there is nothing to join; then start() for a reset
HandleCommand(c) ==
    /\ csStarts > 0
    /\ csJoin = "none"
    /\ csFrames < MaxFrames
    /\ csFrames' = csFrames + 1
    /\ IF c \in {"stop", "reset"}
       THEN /\ csQueue' = QueueAfterStop
            /\ IF CsAlive(csStarts)
               THEN /\ csJoin' = c
                    /\ csRunning' = FALSE
                    /\ UNCHANGED <<csThread, csStarts>>
               ELSE /\ csJoin' = "none"
                    /\ IF c = "reset"
                       THEN /\ csRunning' = TRUE
                            /\ csThread' = StartTaskLoop
                            /\ csStarts' = csStarts + 1
                       ELSE /\ csRunning' = FALSE
                            /\ UNCHANGED <<csThread, csStarts>>
            /\ UNCHANGED csWaiting
       ELSE UNCHANGED <<csRunning, csThread, csStarts, csWaiting, csQueue, csJoin>>

\* task_thread.join(timeout=2.0) returns: the thread ended, or 2 s went by;
\* a reset goes on with start()
ChatSessionJoinReturns ==
    /\ csJoin # "none"
    /\ csJoin' = "none"
    /\ IF csJoin = "reset"
       THEN /\ csRunning' = TRUE
            /\ csThread' = StartTaskLoop
            /\ csStarts' = csStarts + 1
       ELSE UNCHANGED <<csRunning, csThread, csStarts>>
    /\ UNCHANGED <<csWaiting, csQueue, csFrames>>

\* _user_response_with_ui is entered
UserResponseWithUi(t) ==
    /\ csThread[t] = "engine"
    /\ csThread' = [csThread EXCEPT ![t] = "input_wait"]
    /\ csWaiting' = TRUE
    /\ UNCHANGED <<csRunning, csStarts, csQueue, csJoin, csFrames>>

\* user_input_queue.get(timeout=300) returns an entry or raises queue.Empty
UserResponseReturns(t) ==
    /\ csThread[t] = "input_wait"
    /\ csThread' = [csThread EXCEPT ![t] = "engine"]
    /\ csWaiting' = FALSE
    /\ csQueue' = IF csQueue = <<>> THEN csQueue ELSE Tail(csQueue)
    /\ UNCHANGED <<csRunning, csStarts, csJoin, csFrames>>

\* run_task: task.run() returns or raises; finally clears running
RunTaskEnds(t) ==
    /\ csThread[t] = "engine"
    /\ csThread' = [csThread EXCEPT ![t] = "done"]
    /\ csRunning' = FALSE
    /\ UNCHANGED <<csStarts, csWaiting, csQueue, csJoin, csFrames>>

InitCS ==
    /\ csRunning = FALSE
    /\ csThread = [t \in ThreadIds |-> "none"]
    /\ csStarts = 0
    /\ csWaiting = FALSE
    /\ csQueue = <<>>
    /\ csJoin = "none"
    /\ csFrames = 0

NextCS ==
    \/ ChatSessionStart /\ UNCHANGED <<cbVars, sessVars, uiVars, lgVars, pocVars, atVars>>
    \/ ChatSessionMessage /\ UNCHANGED <<cbVars, sessVars, uiVars, lgVars, pocVars, atVars>>
    \/ \E c \in Commands : HandleCommand(c) /\ UNCHANGED <<cbVars, sessVars, uiVars, lgVars, pocVars, atVars>>
    \/ ChatSessionJoinReturns /\ UNCHANGED <<cbVars, sessVars, uiVars, lgVars, pocVars, atVars>>
    \/ \E t \in ThreadIds : UserResponseWithUi(t) /\ UNCHANGED <<cbVars, sessVars, uiVars, lgVars, pocVars, atVars>>
    \/ \E t \in ThreadIds : UserResponseReturns(t) /\ UNCHANGED <<cbVars, sessVars, uiVars, lgVars, pocVars, atVars>>
    \/ \E t \in ThreadIds : RunTaskEnds(t) /\ UNCHANGED <<cbVars, sessVars, uiVars, lgVars, pocVars, atVars>>

(***************************************************************************)
(* WebUICallbacks: the wrappers of llm_response and llm_response_messages  *)
(* and the streaming hooks, synchronous versions.                          *)
(***************************************************************************)
DeleteMessage(id) ==
    [type |-> "delete_message", id |-> id, content |-> <<>>, sender |-> "assistant"]

\* _queue_message: queue_message_threadsafe hands the put to the main loop
\* with run_coroutine_threadsafe
UiQueueMessage(q, m) == Append(q, [msg |-> m, turn |-> uiTurn, put |-> "threadsafe"])

\* `await self.outgoing_queue.put(...)` in the coroutine that runs the hook
UiPutDirect(q, m) == Append(q, [msg |-> m, turn |-> uiTurn, put |-> "direct"])

InUiTurn == uiPhase = "turn" /\ uiHookCalls < MaxHookCalls

\* _llm_response_with_ui up to the call of the original llm_response
LlmResponseWithUi ==
    /\ uiPhase = "idle"
    /\ uiTurn < MaxTurns
    /\ uiCachedSent' = FALSE
    /\ uiStreamStarted' = FALSE
    /\ uiTurn' = uiTurn + 1
    /\ uiPhase' = "turn"
    /\ UNCHANGED <<uiCurrentStreamId, uiStreamBuffer, uiQueue, uiNextUuid, uiHandler,
                   uiAsyncHandler, uiHookCalls, uiFinalized>>

\* the original llm_response returns; the engine drops its token handler
LlmResponseWithUiReturns ==
    /\ uiPhase = "turn"
    /\ uiPhase' = "idle"
    /\ uiHandler' = FALSE
    /\ uiAsyncHandler' = FALSE
    /\ UNCHANGED <<uiCurrentStreamId, uiStreamStarted, uiStreamBuffer, uiCachedSent,
                   uiQueue, uiNextUuid, uiTurn, uiHookCalls, uiFinalized>>

\* WebUICallbacks.start_llm_stream
UiStartLlmStream ==
    /\ InUiTurn
    /\ ~uiHandler /\ ~uiAsyncHandler
    /\ uiHookCalls' = uiHookCalls + 1
    /\ uiCurrentStreamId' = uiNextUuid
    /\ uiNextUuid' = uiNextUuid + 1
    /\ uiStreamStarted' = TRUE
    /\ uiStreamBuffer' = 0
    /\ uiQueue' = UiQueueMessage(uiQueue, StreamStart(uiNextUuid))
    /\ uiHandler' = TRUE
    /\ UNCHANGED <<uiCachedSent, uiPhase, uiAsyncHandler, uiTurn, uiFinalized>>

\* WebUICallbacks.start_llm_stream_async
UiStartLlmStreamAsync ==
    /\ InUiTurn
    /\ ~uiHandler /\ ~uiAsyncHandler
    /\ uiHookCalls' = uiHookCalls + 1
    /\ uiCurrentStreamId' = uiNextUuid
    /\ uiNextUuid' = uiNextUuid + 1
    /\ uiStreamStarted' = TRUE
    /\ uiStreamBuffer' = 0
    /\ uiQueue' = UiPutDirect(uiQueue, StreamStart(uiNextUuid))
    /\ uiAsyncHandler' = TRUE
    /\ UNCHANGED <<uiCachedSent, uiPhase, uiHandler, uiTurn, uiFinalized>>

\* the closure stream_token returned by start_llm_stream
UiStreamToken(tok) ==
    /\ InUiTurn
    /\ uiHandler
    /\ uiHookCalls' = uiHookCalls + 1
    /\ uiStreamBuffer' = uiStreamBuffer + 1
    /\ uiQueue' = UiQueueMessage(uiQueue, StreamToken(uiCurrentStreamId, tok))
    /\ UNCHANGED <<uiCurrentStreamId, uiStreamStarted, uiCachedSent, uiNextUuid,
                   uiPhase, uiHandler, uiAsyncHandler, uiTurn, uiFinalized>>

\* the coroutine stream_token returned by start_llm_stream_async
UiStreamTokenAsync(tok) ==
    /\ InUiTurn
    /\ uiAsyncHandler
    /\ uiHookCalls' = uiHookCalls + 1
    /\ uiStreamBuffer' = uiStreamBuffer + 1
    /\ uiQueue' = UiPutDirect(uiQueue, StreamToken(uiCurrentStreamId, tok))
    /\ UNCHANGED <<uiCurrentStreamId, uiStreamStarted, uiCachedSent, uiNextUuid,
                   uiPhase, uiHandler, uiAsyncHandler, uiTurn, uiFinalized>>

\* WebUICallbacks.finish_llm_stream
UiFinishLlmStream ==
    /\ InUiTurn
    /\ uiHookCalls' = uiHookCalls + 1
    /\ uiHandler' = FALSE
    /\ uiAsyncHandler' = FALSE
    /\ IF uiCurrentStreamId # 0
       THEN /\ uiQueue' = UiQueueMessage(uiQueue,
                              IF uiStreamBuffer = 0
                              THEN DeleteMessage(uiCurrentStreamId)
                              ELSE StreamEnd(uiCurrentStreamId))
            /\ uiCurrentStreamId' = 0
            /\ uiStreamBuffer' = 0
       ELSE UNCHANGED <<uiQueue, uiCurrentStreamId, uiStreamBuffer>>
    /\ UNCHANGED <<uiStreamStarted, uiCachedSent, uiNextUuid, uiPhase, uiTurn,
                   uiFinalized>>

\* _llm_response_messages_with_ui after the original returned a response
\* whose content is c and whose metadata.cached is `cached`
LlmResponseMessagesWithUi(c, cached) ==
    /\ InUiTurn
    /\ uiHookCalls' = uiHookCalls + 1
    /\ uiFinalized' = uiFinalized \cup {<<uiTurn, c>>}
    /\ IF Truthy(c) /\ cached /\ ~uiCachedSent
       THEN /\ uiCachedSent' = TRUE
            /\ IF NonBlank(c)
               THEN /\ uiQueue' = UiQueueMessage(uiQueue,
                                      CompleteMessage(uiNextUuid, c, "assistant"))
                    /\ uiNextUuid' = uiNextUuid + 1
               ELSE UNCHANGED <<uiQueue, uiNextUuid>>
       ELSE UNCHANGED <<uiCachedSent, uiQueue, uiNextUuid>>
    /\ UNCHANGED <<uiCurrentStreamId, uiStreamStarted, uiStreamBuffer, uiPhase,
                   uiHandler, uiAsyncHandler, uiTurn>>

InitUI ==
    /\ uiCurrentStreamId = 0
    /\ uiStreamStarted = FALSE
    /\ uiStreamBuffer = 0
    /\ uiCachedSent = FALSE
    /\ uiQueue = <<>>
    /\ uiNextUuid = 1
    /\ uiPhase = "idle"
    /\ uiHandler = FALSE
    /\ uiAsyncHandler = FALSE
    /\ uiTurn = 0
    /\ uiHookCalls = 0
    /\ uiFinalized = {}

NextUI ==
    \/ LlmResponseWithUi /\ UNCHANGED <<cbVars, sessVars, csVars, lgVars, pocVars, atVars>>
    \/ LlmResponseWithUiReturns /\ UNCHANGED <<cbVars, sessVars, csVars, lgVars, pocVars, atVars>>
    \/ UiStartLlmStream /\ UNCHANGED <<cbVars, sessVars, csVars, lgVars, pocVars, atVars>>
    \/ UiStartLlmStreamAsync /\ UNCHANGED <<cbVars, sessVars, csVars, lgVars, pocVars, atVars>>
    \/ \E tok \in Tokens : UiStreamToken(tok) /\ UNCHANGED <<cbVars, sessVars, csVars, lgVars, pocVars, atVars>>
    \/ \E tok \in Tokens : UiStreamTokenAsync(tok) /\ UNCHANGED <<cbVars, sessVars, csVars, lgVars, pocVars, atVars>>
    \/ UiFinishLlmStream /\ UNCHANGED <<cbVars, sessVars, csVars, lgVars, pocVars, atVars>>
    \/ \E c \in Contents, cached \in BOOLEAN :
          LlmResponseMessagesWithUi(c, cached) /\ UNCHANGED <<cbVars, sessVars, csVars, lgVars, pocVars, atVars>>

(***************************************************************************)
(* show_llm_response statement by statement, called on several threads:    *)
(* the ledger is read, the message is queued, the ledger is written.       *)
(* self._lock is created in __init__ and acquired nowhere.                 *)
(***************************************************************************)
HookThreads == {1, 2}

HooksIdle == \A h \in HookThreads : hookThread[h].pc = "idle"

\* a turn starts while no hook runs
LedgerTurnStarts ==
    /\ HooksIdle
    /\ LlmResponseWithContext
    /\ UNCHANGED hookThread

\* the turn ends once the hooks have returned
LedgerTurnEnds ==
    /\ HooksIdle
    /\ LlmResponseReturn
    /\ UNCHANGED hookThread

\* show_llm_response(c) up to the return of _is_message_already_sent
ShowLlmResponseChecks(h, c) ==
    /\ InTurn
    /\ hookThread[h].pc = "idle"
    /\ cbHookCalls' = cbHookCalls + 1
    /\ cbObserved' = cbObserved \cup {<<cbTurn, c>>}
    /\ IF ~NonBlank(c)
       THEN UNCHANGED <<hookThread, cbSuppressed>>
       ELSE IF IsMessageAlreadySent(Strip(c), cbSentHashes)
       THEN /\ cbSuppressed' = cbSuppressed \cup {<<cbTurn, Strip(c)>>}
            /\ UNCHANGED hookThread
       ELSE /\ hookThread' = [hookThread EXCEPT ![h] = [pc |-> "checked", content |-> c]]
            /\ UNCHANGED cbSuppressed
    /\ UNCHANGED <<cbSentHashes, cbStreamStarted, cbStreamingTokens, cbCurrentStreamId,
                   cbPrimarySent, cbQueue, cbNextUuid, cbPhase, cbHandlerId, cbTurn,
                   cbResets, cbStreams, cbPrimaryFired>>

\* show_llm_response: the complete message is built and handed to _queue_message
ShowLlmResponseQueues(h) ==
    /\ hookThread[h].pc = "checked"
    /\ cbQueue' = QueueMessage(cbQueue,
                      CompleteMessage(cbNextUuid, hookThread[h].content, "assistant"))
    /\ cbNextUuid' = cbNextUuid + 1
    /\ hookThread' = [hookThread EXCEPT ![h].pc = "queued"]
    /\ UNCHANGED <<cbSentHashes, cbStreamStarted, cbStreamingTokens, cbCurrentStreamId,
                   cbPrimarySent, cbPhase, cbHandlerId, cbTurn, cbResets, cbHookCalls,
                   cbObserved, cbSuppressed, cbStreams, cbPrimaryFired>>

\* show_llm_response: _mark_message_as_sent, and the hook returns
ShowLlmResponseMarks(h) ==
    /\ hookThread[h].pc = "queued"
    /\ cbSentHashes' = MarkMessageAsSent(Strip(hookThread[h].content), cbSentHashes)
    /\ hookThread' = [hookThread EXCEPT ![h] = [pc |-> "idle", content |-> NoneContent]]
    /\ UNCHANGED <<cbStreamStarted, cbStreamingTokens, cbCurrentStreamId,
                   cbPrimarySent, cbQueue, cbNextUuid, cbPhase, cbHandlerId, cbTurn,
                   cbResets, cbHookCalls, cbObserved, cbSuppressed, cbStreams,
                   cbPrimaryFired>>

InitLedger == hookThread = [h \in HookThreads |-> [pc |-> "idle", content |-> NoneContent]]

NextLedger ==
    \/ LedgerTurnStarts /\ UNCHANGED <<sessVars, csVars, uiVars, pocVars, atVars>>
    \/ LedgerTurnEnds /\ UNCHANGED <<sessVars, csVars, uiVars, pocVars, atVars>>
    \/ \E h \in HookThreads, c \in Contents :
          ShowLlmResponseChecks(h, c) /\ UNCHANGED <<sessVars, csVars, uiVars, pocVars, atVars>>
    \/ \E h \in HookThreads : ShowLlmResponseQueues(h) /\ UNCHANGED <<sessVars, csVars, uiVars, pocVars, atVars>>
    \/ \E h \in HookThreads : ShowLlmResponseMarks(h) /\ UNCHANGED <<sessVars, csVars, uiVars, pocVars, atVars>>

(***************************************************************************)
(* poc_main.py: the endpoint, the conversation thread, the hooks of its    *)
(* WebUICallbacks and the task that writes the queued messages.            *)
(***************************************************************************)
\* handle_user_message: the text is queued only while a thread waits for it
PocHandleUserMessage(q, n, waiting) == IF waiting THEN Append(q, n) ELSE q

\* websocket_endpoint up to the send of the connection message: the session
\* and its callbacks are created, and with them the _process_messages task
PocAccept ==
    /\ pocPc = "none"
    /\ pocPc' = "connecting"
    /\ pocWs' = "open"
    /\ pocDrain' = "running"
    /\ UNCHANGED <<pocThread, pocWaiting, pocUserInputQueue, pocLoopCalls,
                   pocMessageQueue, pocWritten, pocReturned, pocSubmitted, pocFrames,
                   pocEvents>>

\* the connection message is written, then start_conversation starts the thread
PocStartConversation ==
    /\ pocPc = "connecting"
    /\ pocPc' = "receive"
    /\ pocWritten' = Append(pocWritten, "connection")
    /\ pocThread' = "engine"
    /\ UNCHANGED <<pocWs, pocWaiting, pocUserInputQueue, pocLoopCalls, pocMessageQueue,
                   pocDrain, pocReturned, pocSubmitted, pocFrames, pocEvents>>

\* the receive loop gets a frame of type t; a "message" goes to
\* handle_user_message
PocHandleMessage(t) ==
    /\ pocPc = "receive"
    /\ pocWs = "open"
    /\ pocFrames < MaxFrames
    /\ pocFrames' = pocFrames + 1
    /\ IF t = "message"
       THEN /\ pocUserInputQueue' =
                  PocHandleUserMessage(pocUserInputQueue, pocFrames + 1, pocWaiting)
            /\ pocSubmitted' = pocSubmitted \cup
                  {[n |-> pocFrames + 1, early |-> ~pocWaiting]}
       ELSE UNCHANGED <<pocUserInputQueue, pocSubmitted>>
    /\ UNCHANGED <<pocPc, pocWs, pocThread, pocWaiting, pocLoopCalls, pocMessageQueue,
                   pocDrain, pocWritten, pocReturned, pocEvents>>

\* receive_json raises WebSocketDisconnect; finally: stop() sets task.done
\* and joins the thread for at most 5 s, the session is deleted
PocDisconnect ==
    /\ pocPc = "receive"
    /\ pocPc' = "finished"
    /\ pocWs' = "closed"
    /\ UNCHANGED <<pocThread, pocWaiting, pocUserInputQueue, pocLoopCalls,
                   pocMessageQueue, pocDrain, pocWritten, pocReturned, pocSubmitted,
                   pocFrames, pocEvents>>

\* _queue_message from the conversation thread: get_event_loop raises
\* RuntimeError there, the put is scheduled on the stored main loop
PocQueueMessage(kind) == Append(pocLoopCalls, kind)

\* _llm_response_with_ui: the response is queued as a complete message
PocLlmResponseWithUi ==
    /\ pocThread = "engine"
    /\ pocEvents < MaxTraffic
    /\ pocEvents' = pocEvents + 1
    /\ pocLoopCalls' = PocQueueMessage("message")
    /\ UNCHANGED <<pocPc, pocWs, pocThread, pocWaiting, pocUserInputQueue,
                   pocMessageQueue, pocDrain, pocWritten, pocReturned, pocSubmitted,
                   pocFrames>>

\* _user_response_with_ui up to the blocking get: input_request is queued,
\* waiting_for_user is set
PocUserResponseWithUi ==
    /\ pocThread = "engine"
    /\ pocEvents < MaxTraffic
    /\ pocEvents' = pocEvents + 1
    /\ pocLoopCalls' = PocQueueMessage("input_request")
    /\ pocWaiting' = TRUE
    /\ pocThread' = "input_wait"
    /\ UNCHANGED <<pocPc, pocWs, pocUserInputQueue, pocMessageQueue, pocDrain,
                   pocWritten, pocReturned, pocSubmitted, pocFrames>>

\* user_input_queue.get(timeout=300) returns a text; finally clears the flag
PocUserInputGet ==
    /\ pocThread = "input_wait"
    /\ pocUserInputQueue # <<>>
    /\ pocReturned' = Append(pocReturned, Head(pocUserInputQueue))
    /\ pocUserInputQueue' = Tail(pocUserInputQueue)
    /\ pocWaiting' = FALSE
    /\ pocThread' = "engine"
    /\ UNCHANGED <<pocPc, pocWs, pocLoopCalls, pocMessageQueue, pocDrain, pocWritten,
                   pocSubmitted, pocFrames, pocEvents>>

\* the get raises queue.Empty: None is returned; finally clears the flag
PocUserInputTimeout ==
    /\ pocThread = "input_wait"
    /\ pocUserInputQueue = <<>>
    /\ pocWaiting' = FALSE
    /\ pocThread' = "engine"
    /\ UNCHANGED <<pocPc, pocWs, pocUserInputQueue, pocLoopCalls, pocMessageQueue,
                   pocDrain, pocWritten, pocReturned, pocSubmitted, pocFrames,
                   pocEvents>>

\* run_task: task.run() returns or raises
PocRunTaskEnds ==
    /\ pocThread = "engine"
    /\ pocThread' = "done"
    /\ UNCHANGED <<pocPc, pocWs, pocWaiting, pocUserInputQueue, pocLoopCalls,
                   pocMessageQueue, pocDrain, pocWritten, pocReturned, pocSubmitted,
                   pocFrames, pocEvents>>

\* the loop runs the oldest scheduled message_queue.put
PocRunPut ==
    /\ pocLoopCalls # <<>>
    /\ pocMessageQueue' = Append(pocMessageQueue, Head(pocLoopCalls))
    /\ pocLoopCalls' = Tail(pocLoopCalls)
    /\ UNCHANGED <<pocPc, pocWs, pocThread, pocWaiting, pocUserInputQueue, pocDrain,
                   pocWritten, pocReturned, pocSubmitted, pocFrames, pocEvents>>

\* one iteration of _process_messages: get, send_json; an exception of the
\* send ends the task
PocProcessMessages ==
    /\ pocDrain = "running"
    /\ pocMessageQueue # <<>>
    /\ pocMessageQueue' = Tail(pocMessageQueue)
    /\ IF pocWs = "open"
       THEN /\ pocWritten' = Append(pocWritten, Head(pocMessageQueue))
            /\ UNCHANGED pocDrain
       ELSE /\ pocDrain' = "done"
            /\ UNCHANGED pocWritten
    /\ UNCHANGED <<pocPc, pocWs, pocThread, pocWaiting, pocUserInputQueue,
                   pocLoopCalls, pocReturned, pocSubmitted, pocFrames, pocEvents>>

InitPoc ==
    /\ pocPc = "none"
    /\ pocWs = "none"
    /\ pocThread = "none"
    /\ pocWaiting = FALSE
    /\ pocUserInputQueue = <<>>
    /\ pocLoopCalls = <<>>
    /\ pocMessageQueue = <<>>
    /\ pocDrain = "none"
    /\ pocWritten = <<>>
    /\ pocReturned = <<>>
    /\ pocSubmitted = {}
    /\ pocFrames = 0
    /\ pocEvents = 0

NextPoc ==
    \/ PocAccept /\ UNCHANGED <<cbVars, sessVars, csVars, uiVars, lgVars, atVars>>
    \/ PocStartConversation /\ UNCHANGED <<cbVars, sessVars, csVars, uiVars, lgVars, atVars>>
    \/ \E t \in FrameTypes : PocHandleMessage(t) /\ UNCHANGED <<cbVars, sessVars, csVars, uiVars, lgVars, atVars>>
    \/ PocDisconnect /\ UNCHANGED <<cbVars, sessVars, csVars, uiVars, lgVars, atVars>>
    \/ PocLlmResponseWithUi /\ UNCHANGED <<cbVars, sessVars, csVars, uiVars, lgVars, atVars>>
    \/ PocUserResponseWithUi /\ UNCHANGED <<cbVars, sessVars, csVars, uiVars, lgVars, atVars>>
    \/ PocUserInputGet /\ UNCHANGED <<cbVars, sessVars, csVars, uiVars, lgVars, atVars>>
    \/ PocUserInputTimeout /\ UNCHANGED <<cbVars, sessVars, csVars, uiVars, lgVars, atVars>>
    \/ PocRunTaskEnds /\ UNCHANGED <<cbVars, sessVars, csVars, uiVars, lgVars, atVars>>
    \/ PocRunPut /\ UNCHANGED <<cbVars, sessVars, csVars, uiVars, lgVars, atVars>>
    \/ PocProcessMessages /\ UNCHANGED <<cbVars, sessVars, csVars, uiVars, lgVars, atVars>>

(***************************************************************************)
(* WebSocketCallbacks: attach_to_agent and detach_from_agent.              *)
(***************************************************************************)
\* the agent methods _apply_essential_overrides replaces
AgentMethods == {"llm_response", "llm_response_async", "user_response",
                 "llm_response_messages", "llm_response_messages_async",
                 "agent_response"}

\* the hooks attach_to_agent sets on agent.callbacks
HookNames == {"start_llm_stream", "start_llm_stream_async", "finish_llm_stream",
              "cancel_llm_stream", "show_llm_response", "show_agent_response",
              "show_error_message", "show_start_response", "get_user_response",
              "get_user_response_async"}

\* the methods detach_from_agent restores
RestoredMethods == {"llm_response_messages", "agent_response"}

\* the hooks detach_from_agent deletes
DeletedHooks == {"start_llm_stream", "start_llm_stream_async", "finish_llm_stream",
                 "cancel_llm_stream", "show_llm_response", "show_agent_response",
                 "show_error_message", "show_start_response", "get_user_response",
                 "get_user_response_async"}

\* an agent is constructed: it has the methods M, and its callbacks
\* namespace holds the engine's default hooks or none
CreateAgent(M, defaults) ==
    /\ agPhase = "none"
    /\ agPhase' = "created"
    /\ agMethods' = [m \in AgentMethods |-> IF m \in M THEN "original" ELSE "absent"]
    /\ agCallbacks' = [h \in HookNames |-> IF defaults THEN "default" ELSE "absent"]
    /\ UNCHANGED <<agOriginals, overriddenMethods, agAttaches>>

\* _apply_essential_overrides: a method the agent has is saved as
\* _original_<name> and replaced by the wrapper
ApplyEssentialOverrides ==
    /\ agOriginals' = [m \in AgentMethods |->
                          IF agMethods[m] # "absent" THEN agMethods[m] ELSE agOriginals[m]]
    /\ agMethods' = [m \in AgentMethods |->
                        IF agMethods[m] # "absent" THEN "override" ELSE "absent"]
    /\ overriddenMethods' = overriddenMethods \cup
                                {m \in AgentMethods : agMethods[m] # "absent"}

\* attach_to_agent
AttachToAgent ==
    /\ agPhase \in {"created", "detached"}
    /\ agAttaches < MaxAttaches
    /\ agAttaches' = agAttaches + 1
    /\ agPhase' = "attached"
    /\ agCallbacks' = [h \in HookNames |-> "ours"]
    /\ ApplyEssentialOverrides

\* detach_from_agent
DetachFromAgent ==
    /\ agPhase = "attached"
    /\ agPhase' = "detached"
    /\ agMethods' = [m \in AgentMethods |->
                        IF /\ m \in RestoredMethods
                           /\ m \in overriddenMethods
                           /\ agOriginals[m] # "unset"
                        THEN agOriginals[m] ELSE agMethods[m]]
    /\ agCallbacks' = [h \in HookNames |->
                          IF h \in DeletedHooks THEN "absent" ELSE agCallbacks[h]]
    /\ UNCHANGED <<agOriginals, overriddenMethods, agAttaches>>

InitAttach ==
    /\ agPhase = "none"
    /\ agMethods = [m \in AgentMethods |-> "absent"]
    /\ agOriginals = [m \in AgentMethods |-> "unset"]
    /\ agCallbacks = [h \in HookNames |-> "absent"]
    /\ overriddenMethods = {}
    /\ agAttaches = 0

NextAttach ==
    \/ \E M \in SUBSET AgentMethods, defaults \in BOOLEAN :
          CreateAgent(M, defaults)
              /\ UNCHANGED <<cbVars, sessVars, csVars, uiVars, lgVars, pocVars>>
    \/ AttachToAgent /\ UNCHANGED <<cbVars, sessVars, csVars, uiVars, lgVars, pocVars>>
    \/ DetachFromAgent /\ UNCHANGED <<cbVars, sessVars, csVars, uiVars, lgVars, pocVars>>

(***************************************************************************)
(* Specification of one WebSocketCallbacks object under an arbitrary       *)
(* engine.                                                                 *)
(***************************************************************************)
InitCB ==
    /\ cbPrimaryFired = FALSE
    /\ cbSentHashes = {}
    /\ cbStreamStarted = FALSE
    /\ cbStreamingTokens = <<>>
    /\ cbCurrentStreamId = 0
    /\ cbPrimarySent = FALSE
    /\ cbQueue = <<>>
    /\ cbNextUuid = 1
    /\ cbPhase = "idle"
    /\ cbHandlerId = 0
    /\ cbTurn = 0
    /\ cbResets = 0
    /\ cbHookCalls = 0
    /\ cbObserved = {}
    /\ cbSuppressed = {}
    /\ cbStreams = <<>>

Init == InitCB /\ InitSess /\ InitCS /\ InitUI /\ InitLedger /\ InitPoc /\ InitAttach

NextCB ==
    \/ LlmResponseWithContext /\ UNCHANGED <<sessVars, csVars, uiVars, lgVars, pocVars, atVars>>
    \/ LlmResponseAsyncWithContext /\ UNCHANGED <<sessVars, csVars, uiVars, lgVars, pocVars, atVars>>
    \/ LlmResponseReturn /\ UNCHANGED <<sessVars, csVars, uiVars, lgVars, pocVars, atVars>>
    \/ LlmResponseMessagesWithContext /\ UNCHANGED <<sessVars, csVars, uiVars, lgVars, pocVars, atVars>>
    \/ LlmResponseMessagesAsyncWithContext /\ UNCHANGED <<sessVars, csVars, uiVars, lgVars, pocVars, atVars>>
    \/ StartLlmStream /\ UNCHANGED <<sessVars, csVars, uiVars, lgVars, pocVars, atVars>>
    \/ StreamTokenCall /\ UNCHANGED <<sessVars, csVars, uiVars, lgVars, pocVars, atVars>>
    \/ FinishLlmStreamCall /\ UNCHANGED <<sessVars, csVars, uiVars, lgVars, pocVars, atVars>>
    \/ CancelLlmStream /\ UNCHANGED <<sessVars, csVars, uiVars, lgVars, pocVars, atVars>>
    \/ ShowLlmResponseCall /\ UNCHANGED <<sessVars, csVars, uiVars, lgVars, pocVars, atVars>>
    \/ ShowErrorMessage /\ UNCHANGED <<sessVars, csVars, uiVars, lgVars, pocVars, atVars>>

SpecCB == Init /\ [][NextCB]_vars

Next ==
    \/ \E b \in BrowserIds :
          Connect(b) /\ nextSessionId' <= MaxServed /\ UNCHANGED <<cbVars, csVars, uiVars, lgVars, pocVars, atVars>>
    \/ \E w \in ConnIds : StartTaskThread(w) /\ UNCHANGED <<cbVars, csVars, uiVars, lgVars, pocVars, atVars>>
    \/ \E w \in ConnIds, t \in FrameTypes : HandleMessage(w, t) /\ UNCHANGED <<cbVars, csVars, uiVars, lgVars, pocVars, atVars>>
    \/ \E w \in ConnIds : PeerDisconnect(w) /\ UNCHANGED <<cbVars, csVars, uiVars, lgVars, pocVars, atVars>>
    \/ \E w \in ConnIds : ReceiveLoopBreaks(w) /\ UNCHANGED <<cbVars, csVars, uiVars, lgVars, pocVars, atVars>>
    \/ \E s \in SessionIds, k \in {"stream_start", "stream_token", "stream_end", "message"} :
          EngineQueueMessage(s, k) /\ UNCHANGED <<cbVars, csVars, uiVars, lgVars, pocVars, atVars>>
    \/ \E s \in SessionIds : GetUserResponse(s) /\ UNCHANGED <<cbVars, csVars, uiVars, lgVars, pocVars, atVars>>
    \/ \E s \in SessionIds : PauseWaitReturns(s) /\ UNCHANGED <<cbVars, csVars, uiVars, lgVars, pocVars, atVars>>
    \/ \E s \in SessionIds : UserInputGet(s) /\ UNCHANGED <<cbVars, csVars, uiVars, lgVars, pocVars, atVars>>
    \/ \E s \in SessionIds : UserInputTimeout(s) /\ UNCHANGED <<cbVars, csVars, uiVars, lgVars, pocVars, atVars>>
    \/ \E s \in SessionIds : RunTaskFinally(s) /\ UNCHANGED <<cbVars, csVars, uiVars, lgVars, pocVars, atVars>>
    \/ RunPutMessage /\ UNCHANGED <<cbVars, csVars, uiVars, lgVars, pocVars, atVars>>
    \/ \E d \in DrainIds : ProcessOutgoingMessage(d) /\ UNCHANGED <<cbVars, csVars, uiVars, lgVars, pocVars, atVars>>
    \/ \E d \in DrainIds : ProcessOutgoingExits(d) /\ UNCHANGED <<cbVars, csVars, uiVars, lgVars, pocVars, atVars>>
    \/ CleanupAll /\ UNCHANGED <<cbVars, csVars, uiVars, lgVars, pocVars, atVars>>
    \/ \E s \in SessionIds : RemoveSession(s) /\ UNCHANGED <<cbVars, csVars, uiVars, lgVars, pocVars, atVars>>
    \/ JoinReturns /\ UNCHANGED <<cbVars, csVars, uiVars, lgVars, pocVars, atVars>>

Spec == Init /\ [][Next]_vars

SpecCS == Init /\ [][NextCS]_vars

SpecUI == Init /\ [][NextUI]_vars

SpecLedger == Init /\ [][NextLedger]_vars

SpecPoc == Init /\ [][NextPoc]_vars

SpecAttach == Init /\ [][NextAttach]_vars

\* the registry under create_or_get_session and remove_session calls made in
\* any order, with the connections and threads the calls act on
NextRegistry ==
    \/ \E b \in BrowserIds : Connect(b) /\ UNCHANGED <<cbVars, csVars, uiVars, lgVars, pocVars, atVars>>
    \/ \E w \in ConnIds : StartTaskThread(w) /\ UNCHANGED <<cbVars, csVars, uiVars, lgVars, pocVars, atVars>>
    \/ \E w \in ConnIds : PeerDisconnect(w) /\ UNCHANGED <<cbVars, csVars, uiVars, lgVars, pocVars, atVars>>
    \/ \E w \in ConnIds : ReceiveLoopBreaks(w) /\ UNCHANGED <<cbVars, csVars, uiVars, lgVars, pocVars, atVars>>
    \/ \E s \in SessionIds : GetUserResponse(s) /\ UNCHANGED <<cbVars, csVars, uiVars, lgVars, pocVars, atVars>>
    \/ \E s \in SessionIds : RunTaskFinally(s) /\ UNCHANGED <<cbVars, csVars, uiVars, lgVars, pocVars, atVars>>
    \/ \E s \in SessionIds : RemoveSessionCall(s) /\ UNCHANGED <<cbVars, csVars, uiVars, lgVars, pocVars, atVars>>
    \/ JoinReturns /\ UNCHANGED <<cbVars, csVars, uiVars, lgVars, pocVars, atVars>>

SpecRegistry == Init /\ [][NextRegistry]_vars

\* the connection state of the sessions under set_websocket_state calls made
\* in any order, next to the calls the endpoint and _send_message make
NextGate ==
    \/ \E b \in BrowserIds : Connect(b) /\ UNCHANGED <<cbVars, csVars, uiVars, lgVars, pocVars, atVars>>
    \/ \E w \in ConnIds : StartTaskThread(w) /\ UNCHANGED <<cbVars, csVars, uiVars, lgVars, pocVars, atVars>>
    \/ \E w \in ConnIds, t \in FrameTypes : HandleMessage(w, t) /\ UNCHANGED <<cbVars, csVars, uiVars, lgVars, pocVars, atVars>>
    \/ \E w \in ConnIds : PeerDisconnect(w) /\ UNCHANGED <<cbVars, csVars, uiVars, lgVars, pocVars, atVars>>
    \/ \E s \in SessionIds : GetUserResponse(s) /\ UNCHANGED <<cbVars, csVars, uiVars, lgVars, pocVars, atVars>>
    \/ \E s \in SessionIds : PauseWaitReturns(s) /\ UNCHANGED <<cbVars, csVars, uiVars, lgVars, pocVars, atVars>>
    \/ \E s \in SessionIds, state \in WsStates :
          SetWebsocketStateCall(s, state) /\ UNCHANGED <<cbVars, csVars, uiVars, lgVars, pocVars, atVars>>

SpecGate == Init /\ [][NextGate]_vars

\* several sessions served side by side: their engines queue events and
\* fail, their transports drop and their drain tasks write
NextSideBySide ==
    \/ \E b \in BrowserIds : Connect(b) /\ UNCHANGED <<cbVars, csVars, uiVars, lgVars, pocVars, atVars>>
    \/ \E w \in ConnIds : StartTaskThread(w) /\ UNCHANGED <<cbVars, csVars, uiVars, lgVars, pocVars, atVars>>
    \/ \E w \in ConnIds : PeerDisconnect(w) /\ UNCHANGED <<cbVars, csVars, uiVars, lgVars, pocVars, atVars>>
    \/ \E s \in SessionIds, k \in {"stream_start", "stream_token", "stream_end", "message"} :
          EngineQueueMessage(s, k) /\ UNCHANGED <<cbVars, csVars, uiVars, lgVars, pocVars, atVars>>
    \/ \E s \in SessionIds : GetUserResponse(s) /\ UNCHANGED <<cbVars, csVars, uiVars, lgVars, pocVars, atVars>>
    \/ \E s \in SessionIds : RunTaskFinally(s) /\ UNCHANGED <<cbVars, csVars, uiVars, lgVars, pocVars, atVars>>
    \/ RunPutMessage /\ UNCHANGED <<cbVars, csVars, uiVars, lgVars, pocVars, atVars>>
    \/ \E d \in DrainIds : ProcessOutgoingMessage(d) /\ UNCHANGED <<cbVars, csVars, uiVars, lgVars, pocVars, atVars>>
    \/ \E d \in DrainIds : ProcessOutgoingExits(d) /\ UNCHANGED <<cbVars, csVars, uiVars, lgVars, pocVars, atVars>>

SpecSideBySide == Init /\ [][NextSideBySide]_vars

(***************************************************************************)
(* What was queued, read back from the queue.                              *)
(***************************************************************************)
\* positions of the assistant's complete messages queued in turn t
AssistantMessages(t) ==
    {i \in DOMAIN cbQueue :
        /\ cbQueue[i].turn = t
        /\ cbQueue[i].msg.type = "message"
        /\ cbQueue[i].msg.sender = "assistant"}

\* how many of them carry exactly the text c
CountExact(t, c) ==
    Cardinality({i \in AssistantMessages(t) : cbQueue[i].msg.content = c})

\* how many of them carry the text T once trimmed
CountTrimmed(t, T) ==
    Cardinality({i \in AssistantMessages(t) : Strip(cbQueue[i].msg.content) = T})

\* a sender examined, in turn t, a non-blank content that trims to T
ObservedTrimmed(t, T) ==
    \E c \in Strs : NonBlank(c) /\ Strip(c) = T /\ <<t, c>> \in cbObserved

TrimmedTexts == {Strip(c) : c \in {d \in Strs : NonBlank(d)}}

\* the messages queued with message id `id`, in queue order
EventsOf(id) ==
    LET HasId(e) == e.msg.id = id
        sel == SelectSeq(cbQueue, HasId)
    IN  [i \in 1..Len(sel) |-> sel[i].msg]

\* the framing the stream `id` should have had with the tokens toks
Framing(id, toks) ==
    <<StreamStart(id)>> \o [i \in 1..Len(toks) |-> StreamToken(id, toks[i])]
        \o <<StreamEnd(id)>>

FinishedStreams == {id \in DOMAIN cbStreams : cbStreams[id].state = "finished"}

(***************************************************************************)
(* C1 (as stated): within one turn, every non-blank finalized content C    *)
(* that a sender hook examined has exactly one complete message whose      *)
(* content is C on the queue.                                              *)
(***************************************************************************)
C1_ExactlyOnePerContent ==
    \A o \in cbObserved :
        NonBlank(o[2]) => CountExact(o[1], o[2]) = 1

(***************************************************************************)
(* C1 (amended): within one turn, for every non-blank text T, the number   *)
(* of complete messages whose trimmed content is T is one if some sender   *)
(* hook (primary, show_llm_response, finish_llm_stream of a started        *)
(* stream) examined a content that trims to T, however often and in        *)
(* whatever order, and zero otherwise.                                     *)
(***************************************************************************)
C1_ExactlyOnePerTrimmedContent ==
    \A t \in 1..cbTurn : \A T \in TrimmedTexts :
        CountTrimmed(t, T) = IF ObservedTrimmed(t, T) THEN 1 ELSE 0

\* a text was examined again in its turn and skipped, and is queued once
C1_Witness ==
    \E o \in cbSuppressed : CountTrimmed(o[1], o[2]) = 1

(***************************************************************************)
(* C2: the ledger is reset once per turn start, so it holds fingerprints   *)
(* of the current turn's messages only, and a text delivered in one turn   *)
(* and examined again in the next is delivered once in each.               *)
(***************************************************************************)
C2_ResetPerTurn ==
    /\ cbResets = cbTurn
    /\ \A h \in cbSentHashes : \E i \in AssistantMessages(cbTurn) :
           h = GetMessageHash(Strip(cbQueue[i].msg.content))
    /\ \A t \in 2..cbTurn : \A T \in TrimmedTexts :
           (ObservedTrimmed(t - 1, T) /\ ObservedTrimmed(t, T))
               => (CountTrimmed(t - 1, T) = 1 /\ CountTrimmed(t, T) = 1)

\* the same text is on the queue once for turn 1 and once for turn 2
C2_Witness ==
    \E T \in TrimmedTexts : CountTrimmed(1, T) = 1 /\ CountTrimmed(2, T) = 1

(***************************************************************************)
(* C3: a stream that got N >= 1 tokens and was finished has queued, under  *)
(* its message id, exactly stream_start, the N tokens in order and         *)
(* stream_end, and no complete message.                                    *)
(***************************************************************************)
C3_StreamFraming ==
    \A id \in FinishedStreams :
        cbStreams[id].tokens # <<>> => EventsOf(id) = Framing(id, cbStreams[id].tokens)

\* the message types that tell the client to drop a stream's placeholder
CancelTypes == {"stream_cancel", "delete_message"}

(***************************************************************************)
(* C4: a stream finished with an empty token buffer has a cancellation     *)
(* event and no stream_end queued under its message id.                    *)
(***************************************************************************)
C4_EmptyStreamCancelled ==
    \A id \in FinishedStreams :
        cbStreams[id].tokens = <<>> =>
            /\ \E i \in DOMAIN EventsOf(id) : EventsOf(id)[i].type \in CancelTypes
            /\ \A i \in DOMAIN EventsOf(id) : EventsOf(id)[i].type # "stream_end"

(***************************************************************************)
(* C5: the finalized text of a stream that delivered at least one token    *)
(* is not also queued as a complete message in the same turn.              *)
(***************************************************************************)
C5_NoCompleteAfterTokens ==
    \A id \in FinishedStreams :
        (cbStreams[id].tokens # <<>> /\ NonBlank(cbStreams[id].content))
            => CountTrimmed(cbStreams[id].turn, Strip(cbStreams[id].content)) = 0

(***************************************************************************)
(* C6: no complete message with empty or whitespace-only content is ever   *)
(* queued.                                                                 *)
(***************************************************************************)
C6_NoBlankCompleteMessage ==
    \A i \in DOMAIN cbQueue :
        cbQueue[i].msg.type = "message" => NonBlank(cbQueue[i].msg.content)

\* every sender hook has been handed whitespace-only content
C6_Witness ==
    /\ \E o \in cbObserved : o[2] = <<" ">>
    /\ \E o \in cbObserved : o[2] = <<>>
    /\ \E id \in FinishedStreams : cbStreams[id].content = <<" ">>

(***************************************************************************)
(* What the sessions did, read back from their logs.                       *)
(***************************************************************************)
Increasing(q) == \A i, j \in DOMAIN q : i < j => q[i] < q[j]

Range(q) == {q[i] : i \in DOMAIN q}

\* the numbers of the user texts get_user_response returned, in order
ReceivedIds(s) ==
    LET IsText(x) == x.n # 0
        sel == SelectSeq(received[s], IsText)
    IN  [i \in 1..Len(sel) |-> sel[i].n]

\* the numbers of the user texts waiting on the inbound channel, in order
PendingIds(s) ==
    LET IsText(x) == x.n # 0
        sel == SelectSeq(sess[s].userInputQueue, IsText)
    IN  [i \in 1..Len(sel) |-> sel[i].n]

AcceptedIds(s) == {accepted[s][i].n : i \in DOMAIN accepted[s]}

\* the enqueue numbers of the queued events written for session s, in write order
WrittenSeqs(s) ==
    LET IsQueued(x) == x.ev.seq # 0
        sel == SelectSeq(written[s], IsQueued)
    IN  [i \in 1..Len(sel) |-> sel[i].ev.seq]

LiveDrains(s) == {d \in DrainIds : drain[d].session = s /\ drain[d].pc = "running"}

(***************************************************************************)
(* C7: a connection that presents the browser identity of a registered     *)
(* session is handed that same session with isNew = false, no second       *)
(* turn-loop thread is started for it, and what its clients submit is      *)
(* received by the session's first and only turn-loop thread.              *)
(***************************************************************************)
C7_ReconnectReusesSession ==
    \A w \in 1..nextConn :
        conn[w].prior # 0 =>
            LET s == conn[w].session
            IN  /\ ~conn[w].isNew
                /\ s = conn[w].prior
                /\ conn[w].pc # "sleeping"
                /\ sess[s].threadsStarted <= 1
                /\ \A i \in DOMAIN received[s] : received[s][i].by = 1

\* the turn-loop was blocked in the input wait when the transport dropped and
\* the client came back; it then received a text sent over the new connection
C7_Witness ==
    \E w \in 1..nextConn :
        /\ conn[w].prior # 0
        /\ conn[w].blockedAtConnect
        /\ \E i \in DOMAIN received[conn[w].session] :
              /\ received[conn[w].session][i].via = w
              /\ received[conn[w].session][i].by = 1

(***************************************************************************)
(* C8 as stated: a user text accepted while the turn-loop is blocked in    *)
(* the input wait is never lost (it has been returned or is still waiting) *)
(* and texts are returned once each, in the order submitted.               *)
(***************************************************************************)
C8_ExactlyOnceFifo ==
    \A s \in SessionIds :
        /\ Increasing(ReceivedIds(s))
        /\ \A i \in DOMAIN accepted[s] :
              accepted[s][i].blocked =>
                  accepted[s][i].n \in Range(ReceivedIds(s)) \cup Range(PendingIds(s))

(***************************************************************************)
(* C8 amended: texts are returned at most once and in the order submitted; *)
(* an accepted text is exactly one of returned, still waiting, or          *)
(* discarded by a reconnection.                                            *)
(***************************************************************************)
C8_AtMostOnceFifo ==
    \A s \in SessionIds :
        /\ Increasing(ReceivedIds(s) \o PendingIds(s))
        /\ AcceptedIds(s) =
              Range(ReceivedIds(s)) \cup Range(PendingIds(s)) \cup cleared[s]
        /\ cleared[s] \cap (Range(ReceivedIds(s)) \cup Range(PendingIds(s))) = {}

\* two texts accepted while the turn-loop was blocked were both returned
C8_Witness ==
    \E s \in SessionIds :
        /\ Len(ReceivedIds(s)) >= 2
        /\ \A i \in DOMAIN accepted[s] : accepted[s][i].blocked

(***************************************************************************)
(* C9 as stated: once an input wait has timed out the turn-loop makes no   *)
(* further input request; it is handing the sentinel to the engine or has  *)
(* ended.                                                                  *)
(***************************************************************************)
C9_TimeoutStopsSession ==
    \A s \in SessionIds :
        sess[s].lastHow = "timeout" => sess[s].thread \in {"engine", "done"}

(***************************************************************************)
(* C10: the queued events of a session are written in the order in which   *)
(* they were handed to _queue_message.                                     *)
(***************************************************************************)
C10_WrittenInEnqueueOrder ==
    \A s \in SessionIds : Increasing(WrittenSeqs(s))

\* two queued events were written to the transport of a reconnection while
\* two drain tasks were reading the session's queue
C10_Witness ==
    \E s \in SessionIds :
        /\ Cardinality(LiveDrains(s)) = 2
        /\ \E i, j \in DOMAIN written[s] :
              /\ i < j
              /\ written[s][i].ev.seq # 0
              /\ written[s][j].ev.seq # 0
              /\ written[s][i].to = 2
              /\ written[s][j].to = 2

(***************************************************************************)
(* C11: a session never has two live turn-loop threads.                    *)
(***************************************************************************)
C11_AtMostOneLiveThread ==
    Cardinality({t \in ThreadIds : CsAlive(t)}) <= 1

(***************************************************************************)
(* C12: no two live drain tasks read the outbound queue of one session.    *)
(***************************************************************************)
C12_SingleDrain ==
    \A s \in SessionIds : Cardinality(LiveDrains(s)) <= 1

\* the events of session s that are scheduled, queued or written
EventsOfSession(s) ==
    {loopCalls[i].ev : i \in {j \in DOMAIN loopCalls : loopCalls[j].session = s}}
        \cup Range(sess[s].outgoingQueue)
        \cup {written[s][i].ev : i \in DOMAIN written[s]}

(***************************************************************************)
(* C13: once the engine has raised in the turn-loop of a session, an error *)
(* event for the session's client has been enqueued or written.            *)
(***************************************************************************)
C13_ErrorEventOnException ==
    \A s \in SessionIds :
        sess[s].exit = "raised" =>
            \E e \in EventsOfSession(s) : e.kind = "error"

(***************************************************************************)
(* C14: however task.run() ends, by returning or by raising, the step that *)
(* ends the turn-loop leaves the thread finished and the running flag      *)
(* false.                                                                  *)
(***************************************************************************)
C14_StoppedOnEveryExit ==
    [][\A s \in SessionIds :
          (sess[s].thread # "done" /\ sess'[s].thread = "done")
              => (sess'[s].exit \in TaskExits /\ ~sess'[s].running)]_vars

\* the engine raised while the session was running; the flag is now false
C14_Witness ==
    \E s \in SessionIds :
        sess[s].exit = "raised" /\ sess[s].thread = "done" /\ ~sess[s].running

(***************************************************************************)
(* C15: a drain iteration whose write to the transport raises leaves the   *)
(* session DISCONNECTED, leaves the turn-loop thread as it was and does    *)
(* not put the event back on the outbound queue.                           *)
(***************************************************************************)
C15_FailedWriteDisconnects ==
    [][\A d \in DrainIds :
          (/\ ProcessOutgoingMessage(d)
           /\ conn[sess[drain[d].session].websocket].state = "broken")
              => LET s == drain[d].session
                 IN  /\ sess'[s].wsState = "disconnected"
                     /\ sess'[s].thread = sess[s].thread
                     /\ sess'[s].outgoingQueue = Tail(sess[s].outgoingQueue)
                     /\ written'[s] = written[s]]_vars

(***************************************************************************)
(* C16: an input request that found the connection not CONNECTED takes no  *)
(* item from the inbound channel before the state is CONNECTED again.      *)
(***************************************************************************)
C16_NoInputWhileDisconnected ==
    [][\A s \in SessionIds :
          (UserInputGet(s) /\ sess[s].gated) => sess[s].wsState = "connected"]_vars

(***************************************************************************)
(* C17: handle_message puts a user text on the inbound channel exactly     *)
(* when the session is CONNECTED at that moment; otherwise the channel is  *)
(* left as it was.                                                         *)
(***************************************************************************)
C17_QueuedIffConnected ==
    [][\A w \in ConnIds : \A t \in TextFrames :
          HandleMessage(w, t) =>
              LET s == conn[w].session
                  q == sess[s].userInputQueue
              IN  IF sess[s].wsState = "connected"
                  THEN /\ Len(sess'[s].userInputQueue) = Len(q) + 1
                       /\ SubSeq(sess'[s].userInputQueue, 1, Len(q)) = q
                       /\ sess'[s].userInputQueue[Len(q) + 1].via = w
                  ELSE sess'[s].userInputQueue = q]_vars

\* a text was queued while CONNECTED, and the session, since DISCONNECTED,
\* has an open connection whose texts are ignored
C17_Witness ==
    \E s \in SessionIds : \E w \in ConnIds :
        /\ accepted[s] # <<>>
        /\ sess[s].wsState = "disconnected"
        /\ conn[w].session = s /\ conn[w].state = "open" /\ conn[w].pc = "receive"
        /\ nextInput + nextSeq < MaxTraffic

(***************************************************************************)
(* C18: when create_or_get_session reuses the registered session of a      *)
(* browser identity, the session it returns has an empty inbound channel,  *)
(* an empty outbound queue, the new transport handle, the state CONNECTED  *)
(* and an open pause gate.                                                 *)
(***************************************************************************)
C18_ReusedSessionIsFresh ==
    [][\A b \in BrowserIds :
          (Connect(b) /\ Reuses(b)) =>
              LET r == sess'[browser_sessions[b]]
              IN  /\ r.userInputQueue = <<>>
                  /\ r.outgoingQueue = <<>>
                  /\ r.websocket = nextConn'
                  /\ conn'[nextConn'].session = browser_sessions[b]
                  /\ r.wsState = "connected"
                  /\ r.pauseEvent
                  /\ ~r.taskPaused]_vars

\* a reconnection has reused a session that had user texts waiting
C18_Witness ==
    \E s \in SessionIds : \E w \in ConnIds :
        /\ cleared[s] # {}
        /\ conn[w].session = s /\ ~conn[w].isNew /\ conn[w].state = "open"
        /\ sess[s].websocket = w

\* the registered sessions that connections of browser identity b were handed
RegisteredSessionsOf(b) ==
    {s \in sessions : \E w \in 1..nextConn :
                         conn[w].browser = b /\ conn[w].session = s}

(***************************************************************************)
(* C19: the connections of one browser identity hold at most one           *)
(* registered session, the one the registry maps the identity to; and a    *)
(* connection that presented an identity whose session was registered was  *)
(* handed that session.                                                    *)
(***************************************************************************)
C19_OneSessionPerBrowser ==
    /\ \A b \in TrackedBrowsers :
          /\ Cardinality(RegisteredSessionsOf(b)) <= 1
          /\ RegisteredSessionsOf(b) \subseteq {browser_sessions[b]}
    /\ \A w \in 1..nextConn : conn[w].prior # 0 => conn[w].session = conn[w].prior

\* the identity's first session was removed and a second one was created for
\* it, while an untracked connection never shares
C19_Witness ==
    \E w1, w2 \in 1..nextConn :
        /\ w1 < w2
        /\ conn[w1].browser = "b1" /\ conn[w2].browser = "b1"
        /\ conn[w1].session # conn[w2].session
        /\ conn[w2].session \in sessions

(***************************************************************************)
(* C20: no two registered sessions hold the same transport handle.         *)
(***************************************************************************)
C20_DistinctHandles ==
    \A s1, s2 \in sessions : s1 # s2 => sess[s1].websocket # sess[s2].websocket

\* two sessions are registered, each bound to its own connection
C20_Witness ==
    \E s1, s2 \in sessions :
        /\ s1 # s2
        /\ sess[s1].websocket \in 1..nextConn
        /\ sess[s2].websocket \in 1..nextConn

\* remove_session(s) was called by cleanup_all and has returned
Removed(s) ==
    /\ cleanup.started
    /\ s \in 1..nextSessionId
    /\ s \notin Range(cleanup.ids)
    /\ loopBlocked # s

(***************************************************************************)
(* C21: once remove_session has returned for a session, the session is in  *)
(* neither map of the registry, no drain task of the session is left       *)
(* running and the running flag is false.                                  *)
(***************************************************************************)
C21_RemovedIsStopped ==
    \A s \in SessionIds :
        Removed(s) =>
            /\ s \notin sessions
            /\ \A b \in TrackedBrowsers : browser_sessions[b] # s
            /\ ~sess[s].running
            /\ LiveDrains(s) = {}

(***************************************************************************)
(* C22: a session leaves the registry only in a remove_session step, and   *)
(* a transport that drops, or a receive loop that ends, leaves the         *)
(* registry and every turn-loop thread as they were.                       *)
(***************************************************************************)
C22_DisconnectKeepsSession ==
    [][/\ \A s \in sessions : s \notin sessions' => RemoveSession(s)
       /\ \A w \in ConnIds :
             (PeerDisconnect(w) \/ ReceiveLoopBreaks(w)) =>
                 /\ sessions' = sessions
                 /\ browser_sessions' = browser_sessions
                 /\ \A s \in SessionIds : sess'[s].thread = sess[s].thread]_vars

\* every connection of a session has ended; the session is still registered
\* and its turn-loop thread is alive
C22_Witness ==
    \E s \in sessions :
        /\ ~cleanup.started
        /\ sess[s].thread \in {"engine", "pause_wait", "input_wait"}
        /\ \A w \in 1..nextConn : conn[w].session = s => conn[w].pc = "finished"
        /\ \E w \in 1..nextConn : conn[w].session = s

(***************************************************************************)
(* C23 (as stated): in a turn in which the primary sender has not run,     *)
(* every non-blank content C that show_llm_response or finish_llm_stream   *)
(* examined has exactly one complete message whose content is C.           *)
(***************************************************************************)
C23_FallbackDeliversExact ==
    (cbTurn >= 1 /\ ~cbPrimaryFired) =>
        \A o \in cbObserved :
            (o[1] = cbTurn /\ NonBlank(o[2])) => CountExact(cbTurn, o[2]) = 1

(***************************************************************************)
(* C23 (amended): in a turn in which the primary sender has not run, for   *)
(* every text T to which a content examined by show_llm_response or by     *)
(* finish_llm_stream of a started stream trims, exactly one complete       *)
(* message whose trimmed content is T is queued, and it carries one of the *)
(* examined contents as it was given.                                      *)
(***************************************************************************)
C23_FallbackDeliversTrimmed ==
    (cbTurn >= 1 /\ ~cbPrimaryFired) =>
        \A T \in TrimmedTexts :
            ObservedTrimmed(cbTurn, T) =>
                /\ CountTrimmed(cbTurn, T) = 1
                /\ \A i \in AssistantMessages(cbTurn) :
                      Strip(cbQueue[i].msg.content) = T
                          => <<cbTurn, cbQueue[i].msg.content>> \in cbObserved

\* only fallback hooks ran in the turn; one sent the content and a later one,
\* handed the same text, skipped it
C23_Witness ==
    /\ cbTurn >= 1
    /\ ~cbPrimaryFired
    /\ \E o \in cbSuppressed : o[1] = cbTurn /\ CountTrimmed(cbTurn, o[2]) = 1

\* the events a WebUICallbacks object queued in turn t
UiEvents(t) == {i \in DOMAIN uiQueue : uiQueue[i].turn = t}

StreamTypes == {"stream_start", "stream_token", "stream_end"} \cup CancelTypes

(***************************************************************************)
(* C24: for a response whose content is not blank, finalized in a turn in  *)
(* which no stream was started, no stream_start, stream_token, stream_end  *)
(* or cancel event is queued in that turn and exactly one complete message *)
(* carrying the content is.                                                *)
(***************************************************************************)
C24_NonStreamedDelivered ==
    \A o \in uiFinalized :
        (/\ NonBlank(o[2])
         /\ \A i \in UiEvents(o[1]) : uiQueue[i].msg.type # "stream_start")
            => /\ \A i \in UiEvents(o[1]) : uiQueue[i].msg.type \notin StreamTypes
               /\ Cardinality({i \in UiEvents(o[1]) :
                      /\ uiQueue[i].msg.type = "message"
                      /\ uiQueue[i].msg.content = o[2]}) = 1

\* the frame types handle_message has no branch for
UnknownFrames == FrameTypes \ {"message", "user_input", "ping"}

(***************************************************************************)
(* C25: handling a frame of an unrecognised type changes nothing in any    *)
(* session (inbound channel, outbound queue, connection state, running     *)
(* flag), writes nothing, and leaves the connection open with its receive  *)
(* loop waiting for the next frame.                                        *)
(***************************************************************************)
C25_UnknownTypeIgnored ==
    [][\A w \in ConnIds : \A t \in UnknownFrames :
          HandleMessage(w, t) =>
              /\ sess' = sess
              /\ loopCalls' = loopCalls
              /\ written' = written
              /\ conn'[w].state = "open"
              /\ conn'[w].pc = "receive"]_vars

\* the only connection got a frame that was neither text nor ping, and then
\* a text, which was queued
C25_Witness ==
    \E s \in SessionIds :
        /\ nextConn = 1
        /\ conn[1].session = s
        /\ nextInput = 2
        /\ Len(accepted[s]) = 1
        /\ accepted[s][1].n = 2
        /\ \A i \in DOMAIN written[s] : written[s][i].ev # Pong

(***************************************************************************)
(* C26: a step in which the engine of a session raises, or in which a      *)
(* drain task of the session fails to write, leaves every other session's  *)
(* object, the other sessions' drain tasks and both maps of the registry   *)
(* as they were.                                                           *)
(***************************************************************************)
C26_FailuresAreLocal ==
    [][\A s \in SessionIds :
          (\/ RunTaskFinally(s) /\ sess'[s].exit = "raised"
           \/ \E d \in DrainIds :
                 /\ drain[d].session = s
                 /\ ProcessOutgoingMessage(d)
                 /\ written' = written)
              => /\ \A x \in SessionIds \ {s} : sess'[x] = sess[x]
                 /\ \A d \in DrainIds : drain[d].session # s => drain'[d] = drain[d]
                 /\ sessions' = sessions
                 /\ browser_sessions' = browser_sessions]_vars

\* the engine of one session raised and its drain task failed to write; the
\* other session is running, connected and inside its engine
C26_Witness ==
    \E s, x \in sessions :
        /\ s # x
        /\ sess[s].exit = "raised"
        /\ sess[s].wsState = "disconnected"
        /\ sess[x].running /\ sess[x].thread = "engine"
        /\ sess[x].wsState = "connected" /\ sess[x].pauseEvent

(***************************************************************************)
(* C27: when the endpoint handler has finished because its receive loop    *)
(* saw the client go away, and the session is still bound to that          *)
(* connection, the session is DISCONNECTED and its pause gate is closed.   *)
(***************************************************************************)
C27_DisconnectedAfterHandler ==
    \A w \in 1..nextConn :
        (conn[w].pc = "finished" /\ sess[conn[w].session].websocket = w)
            => /\ sess[conn[w].session].wsState = "disconnected"
               /\ ~sess[conn[w].session].pauseEvent

(***************************************************************************)
(* C28: while a session is registered and bound to an open transport,      *)
(* events waiting on its outbound queue have a drain task that will write  *)
(* them; without one they are never written, since only start() creates a  *)
(* drain task and a reconnection empties the queue first.                  *)
(***************************************************************************)
C28_QueuedEventsHaveDrain ==
    \A s \in sessions :
        (/\ ~cleanup.started
         /\ sess[s].outgoingQueue # <<>>
         /\ conn[sess[s].websocket].state = "open")
            => LiveDrains(s) # {}

(***************************************************************************)
(* C29: once stop() has returned for a session whose only turn-loop thread *)
(* is parked in the input wait, the sentinel is on the inbound channel, so *)
(* that the wait ends without its timeout.                                 *)
(***************************************************************************)
C29_StopUnblocksInputWait ==
    (/\ csStarts = 1
     /\ ~csRunning
     /\ csJoin = "none"
     /\ csThread[1] = "input_wait")
        => \E i \in DOMAIN csQueue : csQueue[i] = "q"

\* cleanup_all has returned: the lifespan handler is over and the
\* interpreter may exit once no thread that is not a daemon is alive
CleanupDone == cleanup.started /\ cleanup.ids = <<>> /\ loopBlocked = 0

(***************************************************************************)
(* C30: a stop() that is joining the turn-loop thread can always go on,    *)
(* whatever the thread does, and once cleanup_all has returned every       *)
(* turn-loop thread still alive is a daemon thread, so that the process    *)
(* can exit.                                                               *)
(***************************************************************************)
C30_StopCompletesExitNotBlocked ==
    /\ loopBlocked # 0 => ENABLED JoinReturns
    /\ CleanupDone =>
          \A s \in SessionIds :
              sess[s].thread \in {"engine", "pause_wait", "input_wait"}
                  => TaskThreadDaemon

(***************************************************************************)
(* C31: every message the hooks put on the outbound queue from the         *)
(* turn-loop thread is handed to the event loop through its thread-safe    *)
(* scheduling call; none is put on the asyncio queue directly.             *)
(***************************************************************************)
C31_WorkerPutsAreThreadSafe ==
    \A i \in DOMAIN uiQueue : uiQueue[i].put = "threadsafe"

(***************************************************************************)
(* C32: when invocations of a sender hook for the same content C run on    *)
(* different threads in one turn and interleave, at most one complete      *)
(* message with content C is queued in that turn.                          *)
(***************************************************************************)
C32_AtMostOnePerContentInterleaved ==
    \A t \in 1..cbTurn : \A c \in Strs :
        NonBlank(c) => CountExact(t, c) <= 1

\* the positions of the queue that a step has just filled with a complete
\* message of the assistant
NewAssistantMessages ==
    {i \in DOMAIN cbQueue' \ DOMAIN cbQueue :
        cbQueue'[i].msg.type = "message" /\ cbQueue'[i].msg.sender = "assistant"}

(***************************************************************************)
(* C33: the fingerprint is taken of the trimmed text.  No hook queues a    *)
(* complete message whose trimmed content has its fingerprint in the       *)
(* ledger, so a content that trims to a text already sent in the turn is   *)
(* suppressed on every hook path, and after a hook has queued a complete   *)
(* message the fingerprint of its trimmed content is in the ledger.        *)
(***************************************************************************)
C33_FingerprintOfTrimmedText ==
    [][\A i \in NewAssistantMessages :
          LET T == Strip(cbQueue'[i].msg.content)
          IN  /\ GetMessageHash(T) \notin cbSentHashes
              /\ GetMessageHash(T) \in cbSentHashes']_vars

\* two different contents that trim to the same text were examined in one
\* turn; one was sent, the other skipped
C33_Witness ==
    \E o \in cbSuppressed :
        /\ CountTrimmed(o[1], o[2]) = 1
        /\ GetMessageHash(o[2]) \in cbSentHashes
        /\ \E c1, c2 \in Strs :
              /\ c1 # c2
              /\ Strip(c1) = o[2] /\ Strip(c2) = o[2]
              /\ <<o[1], c1>> \in cbObserved /\ <<o[1], c2>> \in cbObserved

\* the texts of a sequence
Texts(q) == {q[i] : i \in DOMAIN q}

(***************************************************************************)
(* C34: a user message submitted while the turn-loop is not yet waiting    *)
(* for input is not lost: it is on the inbound queue until an input wait   *)
(* returns it.                                                             *)
(***************************************************************************)
C34_EarlyMessageKept ==
    \A m \in pocSubmitted :
        m.early => m.n \in Texts(pocUserInputQueue) \cup Texts(pocReturned)

\* what was written to transport w for session s, in order
WrittenTo(s, w) ==
    LET ToW(e) == e.to = w
        sel == SelectSeq(written[s], ToW)
    IN  [i \in 1..Len(sel) |-> sel[i].ev]

(***************************************************************************)
(* C35: on every transport connection, the first of a session or a         *)
(* reconnection, the first event written is the connection status; no      *)
(* other event of the session is written to the transport before it.       *)
(***************************************************************************)
C35_ConnectionStatusFirst ==
    \A w \in 1..nextConn :
        LET q == WrittenTo(conn[w].session, w)
        IN  /\ q # <<>>
            /\ q[1] = ConnectionStatus
            /\ \A s \in SessionIds \ {conn[w].session} : WrittenTo(s, w) = <<>>

\* a reconnection: the reused session wrote events to its first transport,
\* and on the second an event of the engine follows the connection status
C35_Witness ==
    \E w \in 2..nextConn :
        LET s == conn[w].session
            q == WrittenTo(s, w)
        IN  /\ ~conn[w].isNew
            /\ \E v \in 1..(w - 1) : conn[v].session = s /\ Len(WrittenTo(s, v)) >= 2
            /\ Len(q) >= 2
            /\ q[1] = ConnectionStatus
            /\ q[2].kind \notin {"connection", "pong"}

(***************************************************************************)
(* C36: after attach_to_agent and then detach_from_agent, every agent      *)
(* method that attach overrode is bound to its original again, and no hook *)
(* that attach installed is left on agent.callbacks.                       *)
(***************************************************************************)
C36_DetachRestoresAgent ==
    agPhase = "detached" =>
        /\ \A m \in AgentMethods : agMethods[m] \in {"absent", "original"}
        /\ \A h \in HookNames : agCallbacks[h] # "ours"

(***************************************************************************)
(* C37: after any sequence of set_websocket_state calls, CONNECTED implies *)
(* that the pause gate is open and the task not paused, DISCONNECTED       *)
(* implies that the gate is closed, and the paused flag is true exactly    *)
(* when the gate is closed.                                                *)
(***************************************************************************)
C37_GateFollowsConnectionState ==
    \A s \in SessionIds :
        /\ sess[s].wsState = "connected" => (sess[s].pauseEvent /\ ~sess[s].taskPaused)
        /\ sess[s].wsState = "disconnected" => ~sess[s].pauseEvent
        /\ sess[s].taskPaused <=> ~sess[s].pauseEvent

\* a session paused by DISCONNECTED and then set to RECONNECTING is still
\* paused, and its turn-loop waits at the gate
C37_Witness ==
    \E s \in sessions :
        /\ sess[s].wsState = "reconnecting"
        /\ sess[s].taskPaused
        /\ ~sess[s].pauseEvent
        /\ sess[s].thread = "pause_wait"

(***************************************************************************)
(* C38: when create_or_get_session hands back an existing session and the  *)
(* endpoint starts it, the turn-loop thread of that session has not        *)
(* terminated: no session is running again with a thread that is over.     *)
(***************************************************************************)
C38_ReusedSessionHasLiveThread ==
    [][\A b \in TrackedBrowsers :
          (Reuses(b) /\ Connect(b)) =>
              ~(sess'[browser_sessions[b]].running
                    /\ sess'[browser_sessions[b]].thread = "done")]_vars

(***************************************************************************)
(* C39: every stream_token and stream_end written to a transport is        *)
(* preceded, on the same transport, by the stream_start with the same      *)
(* message id, also when a reconnection happens while the stream is in     *)
(* flight.                                                                 *)
(***************************************************************************)
C39_StreamStartPrecedes ==
    \A s \in SessionIds : \A i \in DOMAIN written[s] :
        written[s][i].ev.kind \in {"stream_token", "stream_end"} =>
            \E j \in 1..(i - 1) :
                /\ written[s][j].to = written[s][i].to
                /\ written[s][j].ev.kind = "stream_start"
                /\ written[s][j].ev.stream = written[s][i].ev.stream

====
